---------------------------- MODULE Spec2Model ----------------------------
(***************************************************************************)
(* A model of the dids dataset library (core.py, sets.py, file_io/*.py):   *)
(* the client registry that shares one backing resource between a leaf     *)
(* dataset and the views composed on it, the combinators' data operations  *)
(* and the key-set algebra of infinite key domains.                        *)
(*                                                                         *)
(* The object graph is fixed:                                              *)
(*   L   a leaf store: JsonDataset, ZipFileDataset, TarFileDataset or a    *)
(*       Dataset.from_dict store, constructed with a mode                  *)
(*   V1  = L.map(MapFn)             (MappedDataset)                        *)
(*   V2  = L.filter_keys(FilterFn)  (KeyFilteredDataSubset)                *)
(*   D   = Dataset.dict(a=V1, b=V2) (DictDataset)                          *)
(*   P0, P1  from_dict or from_function stores                             *)
(*   Z   = Dataset.zip(P0, P1)      (ZippedDataset)                        *)
(*   Pr  = PrioritizedDataset(P0, P1)                                       *)
(*   ZZ  = Dataset.zip(L, L)        (the same dataset listed twice)         *)
(*   S   = L.subset(SubsetKeys, check_present)  (DataSubset)               *)
(*   M   = L.map_keys(KeyMapFn, KeyMapFn)       (KeyMappedDataset)         *)
(*   A   = AutoSavingDataset(src=P0, dst=P1)                               *)
(*   N   = NestedDataset(L, Depth)                                         *)
(***************************************************************************)
EXTENDS Integers, Sequences, FiniteSets, TLC

\* ------------------------------------------------------------------ bounds
NumKeys == 2
NumVals == 2
NumExt == 1

Keys == 1..NumKeys
Vals == 1..NumVals
\* identities of callers outside the object graph that attach to a dataset
Ext == {"ext" \o ToString(i) : i \in 1..NumExt}

\* ------------------------------------------------------------ object graph
Leaves == {"L", "P0", "P1"}
Objs == {"L", "V1", "V2", "D", "P0", "P1", "Z", "S", "M", "A", "N", "Pr", "ZZ"}
Clients == Objs \cup Ext

ResourceKinds == {"JsonDataset", "ZipFileDataset", "TarFileDataset"}
ArchiveKinds == {"ZipFileDataset", "TarFileDataset"}
Modes == {"r", "a", "w"}

\* every python dict over Keys with values in Vals
Dicts == UNION {[K -> Vals] : K \in SUBSET Keys}
EmptyDict == [k \in {} |-> 0]

VARIABLES
    kind,       \* kind[l]: the class of leaf l
    mode,       \* L._mode
    clients,    \* clients[o]: o._clients, the client registry of dataset o
    resOpen,    \* L's resource: JsonDataset._base is not None / _file is not None
    base,       \* base[l]: the dict held by leaf l (JsonDataset._base while open)
    funcKeys,   \* funcKeys[l]: FunctionDataset._keys of leaf l
    fileExists, \* os.path.isfile(L._path)
    fileData,   \* the document stored at L._path
    hooks,      \* the _open_resource/_close_resource calls the last call made, in order
    err,        \* the exception the last call raised, "none" when it returned
    last,       \* the last call: its operation, dataset, client and what it returned
    ksA, ksB,   \* two key sets, the operands of the key-set algebra
    ksOut,      \* the last key-set operation and its outcome
    checkPresent, \* S._check_present
    prioKeys    \* Pr._keys, the key union Pr.keys() caches

vars == <<kind, mode, clients, resOpen, base, funcKeys, fileExists, fileData,
          hooks, err, last, ksA, ksB, ksOut, checkPresent, prioKeys>>

\* the mutable state the operations thread through, as one record
Cur == [clients |-> clients, resOpen |-> resOpen, base |-> base,
        fileExists |-> fileExists, fileData |-> fileData,
        prioKeys |-> prioKeys, hooks |-> <<>>, err |-> "none"]

Raise(st, e) == [st EXCEPT !.err = e]

\* Class of a dataset object
Class(o) ==
    CASE o \in Leaves -> kind[o]
      [] o = "V1" -> "MappedDataset"
      [] o = "V2" -> "KeyFilteredDataSubset"
      [] o = "D" -> "DictDataset"
      [] o = "Z" -> "ZippedDataset"
      [] o = "Pr" -> "PrioritizedDataset"
      [] o = "ZZ" -> "ZippedDataset"
      [] o = "S" -> "DataSubset"
      [] o = "M" -> "KeyMappedDataset"
      [] o = "A" -> "AutoSavingDataset"
      [] o = "N" -> "NestedDataset"

\* DelegatingDataset._base of a view
Base(o) == "L"

\* CompoundDataset.datasets, PrioritizedDataset._datasets
Datasets(o) ==
    CASE o = "D" -> <<"V1", "V2">>
      [] o = "Z" -> <<"P0", "P1">>
      [] o = "Pr" -> <<"P0", "P1">>
      [] o = "ZZ" -> <<"L", "L">>

IsDelegating(o) == Class(o) \in {"MappedDataset", "KeyFilteredDataSubset"}
IsCompound(o) == Class(o) \in {"DictDataset", "ZippedDataset"}

\* AutoSavingDataset.src and AutoSavingDataset.dst
Src(o) == "P0"
Dst(o) == "P1"


\* ------------------------------------------------------ is_open / is_writable
RECURSIVE is_open(_, _), is_writable(_, _)

\* JsonDataset.is_open: self._base is not None
JsonDataset_is_open(st) == st.resOpen

\* ZipFileDataset.is_open / TarFileDataset.is_open: self._file is not None
ArchiveDataset_is_open(st) == st.resOpen

\* DelegatingDataset.is_open: the base's flag
DelegatingDataset_is_open(st, o) == is_open(st, Base(o))

\* Dataset.is_open, which AutoSavingDataset inherits
Dataset_is_open(st, o) == TRUE

\* KeyMappedDataset.is_open: self._base.is_open
KeyMappedDataset_is_open(st, o) == is_open(st, Base(o))

\* CompoundDataset.is_open: all(d.is_open for d in self.datasets)
CompoundDataset_is_open(st, o) ==
    \A i \in DOMAIN Datasets(o) : is_open(st, Datasets(o)[i])

\* PrioritizedDataset.is_open: all(d.is_open for d in self._datasets)
PrioritizedDataset_is_open(st, o) ==
    \A i \in DOMAIN Datasets(o) : is_open(st, Datasets(o)[i])

is_open(st, o) ==
    CASE Class(o) = "JsonDataset" -> JsonDataset_is_open(st)
      [] Class(o) \in ArchiveKinds -> ArchiveDataset_is_open(st)
      [] Class(o) = "WrappedDictDataset" -> TRUE
      [] Class(o) = "FunctionDataset" -> TRUE
      [] IsDelegating(o) -> DelegatingDataset_is_open(st, o)
      [] Class(o) \in {"DataSubset", "NestedDataset"} -> DelegatingDataset_is_open(st, o)
      [] Class(o) = "KeyMappedDataset" -> KeyMappedDataset_is_open(st, o)
      [] Class(o) = "AutoSavingDataset" -> Dataset_is_open(st, o)
      [] IsCompound(o) -> CompoundDataset_is_open(st, o)
      [] Class(o) = "PrioritizedDataset" -> PrioritizedDataset_is_open(st, o)

\* JsonDataset.is_writable: self._mode in ('a', 'w') and self.is_open
JsonDataset_is_writable(st) == mode \in {"a", "w"} /\ JsonDataset_is_open(st)

\* ZipFileDataset.is_writable / TarFileDataset.is_writable: self._mode in ('a', 'w')
ArchiveDataset_is_writable(st) == mode \in {"a", "w"}

\* DelegatingDataset.is_writable: the base's flag (KeyFilteredDataSubset inherits it)
DelegatingDataset_is_writable(st, o) == is_writable(st, Base(o))

\* KeyMappedDataset.is_writable: self._base.is_writable
KeyMappedDataset_is_writable(st, o) == is_writable(st, Base(o))

\* MappedDataset.is_writable
MappedDataset_is_writable(st, o) == FALSE

\* Dataset.is_writable, which CompoundDataset, DictDataset and ZippedDataset inherit
Dataset_is_writable(st, o) == FALSE

\* WrappedDictDataset.is_writable is a plain method, not a property: the
\* attribute is a bound method, which every truth test takes as true
WrappedDictDataset_is_writable(st, o) == TRUE

\* UnwritableDataset.is_writable (FunctionDataset)
UnwritableDataset_is_writable(st, o) == FALSE

is_writable(st, o) ==
    CASE Class(o) = "JsonDataset" -> JsonDataset_is_writable(st)
      [] Class(o) \in ArchiveKinds -> ArchiveDataset_is_writable(st)
      [] Class(o) = "WrappedDictDataset" -> WrappedDictDataset_is_writable(st, o)
      [] Class(o) = "FunctionDataset" -> UnwritableDataset_is_writable(st, o)
      [] Class(o) = "MappedDataset" -> MappedDataset_is_writable(st, o)
      [] Class(o) = "KeyFilteredDataSubset" -> DelegatingDataset_is_writable(st, o)
      [] Class(o) \in {"DataSubset", "NestedDataset"} -> DelegatingDataset_is_writable(st, o)
      [] Class(o) = "KeyMappedDataset" -> KeyMappedDataset_is_writable(st, o)
      [] Class(o) = "AutoSavingDataset" -> Dataset_is_writable(st, o)
      [] IsCompound(o) -> Dataset_is_writable(st, o)
      [] Class(o) = "PrioritizedDataset" -> UnwritableDataset_is_writable(st, o)

\* ------------------------------------------------------- resource lifecycle
RECURSIVE open_connection(_, _, _), close_connection(_, _, _)
RECURSIVE open_resource(_, _), close_resource(_, _)
RECURSIVE open_all(_, _, _, _), close_all(_, _, _, _)
RECURSIVE contains(_, _, _)

\* JsonDataset._open_resource
JsonDataset_open_resource(s) ==
    IF mode = "r" /\ ~s.fileExists THEN Raise(s, "IOError")
    ELSE IF mode \in {"r", "a"} /\ s.fileExists
         THEN [s EXCEPT !.resOpen = TRUE, !.base["L"] = s.fileData]
         ELSE [s EXCEPT !.resOpen = TRUE, !.base["L"] = EmptyDict]

\* JsonDataset._close_resource: dump the document when writable, drop _base
JsonDataset_close_resource(s) ==
    LET t == IF JsonDataset_is_writable(s)
             THEN [s EXCEPT !.fileExists = TRUE, !.fileData = s.base["L"]]
             ELSE s
    IN [t EXCEPT !.resOpen = FALSE, !.base["L"] = EmptyDict]

\* ZipFileDataset._open_resource / TarFileDataset._open_resource: the archive
\* is opened with the mode; 'r' needs the file, 'w' truncates, 'a' creates
ArchiveDataset_open_resource(s) ==
    IF s.resOpen THEN s
    ELSE IF mode = "r" /\ ~s.fileExists THEN Raise(s, "IOError")
    ELSE IF mode = "w"
         THEN [s EXCEPT !.resOpen = TRUE, !.fileExists = TRUE,
                        !.fileData = EmptyDict]
         ELSE [s EXCEPT !.resOpen = TRUE, !.fileExists = TRUE]

\* ZipFileDataset._close_resource / TarFileDataset._close_resource
ArchiveDataset_close_resource(s) ==
    IF ~s.resOpen THEN s ELSE [s EXCEPT !.resOpen = FALSE]

\* a view that acquires its base's resource itself, past the registry
DelegatingDataset_open_direct(st, o) ==
    LET s == open_resource(st, Base(o))
    IN IF s.err # "none" THEN s ELSE [s EXCEPT !.clients[Base(o)] = @ \cup {o}]

\* DelegatingDataset._open_resource: attach to the base, as its client
DelegatingDataset_open_resource(st, o) == open_connection(st, Base(o), o)

\* DelegatingDataset._close_resource
DelegatingDataset_close_resource(st, o) == close_connection(st, Base(o), o)

\* DataSubset._keys, the keys S is constrained to
SubsetKeys == 1..(NumKeys - 1)

\* DataSubset._check_keys: with check_present, every key of the subset must
\* be in the base
DataSubset_check_keys(st, o) ==
    IF ~checkPresent THEN st
    ELSE LET rs == {contains(st, Base(o), k) : k \in SubsetKeys}
         IN IF \E r \in rs : r.err # "none"
            THEN Raise(st, (CHOOSE r \in rs : r.err # "none").err)
            ELSE IF \E r \in rs : ~r.val THEN Raise(st, "KeyError")
            ELSE st

\* DataSubset._open_resource: the delegating hook, then _check_keys
DataSubset_open_resource(st, o) ==
    LET s == DelegatingDataset_open_resource(st, o)
    IN IF s.err # "none" THEN s ELSE DataSubset_check_keys(s, o)

\* KeyMappedDataset._open_resource
KeyMappedDataset_open_resource(st, o) == open_connection(st, Base(o), o)

\* KeyMappedDataset._close_resource
KeyMappedDataset_close_resource(st, o) == close_connection(st, Base(o), o)

\* AutoSavingDataset._open_resource: the source, then the destination
AutoSavingDataset_open_resource(st, o) ==
    open_connection(open_connection(st, Src(o), o), Dst(o), o)

\* AutoSavingDataset._close_resource: the destination, then the source
AutoSavingDataset_close_resource(st, o) ==
    close_connection(close_connection(st, Dst(o), o), Src(o), o)

\* the loop `for v in self.datasets: v.open_connection(self)`, from index i
open_all(st, ds, i, c) ==
    IF i > Len(ds) \/ st.err # "none" THEN st
    ELSE open_all(open_connection(st, ds[i], c), ds, i + 1, c)

\* the loop `for v in self.datasets: v.close_connection(self)`, from index i
close_all(st, ds, i, c) ==
    IF i > Len(ds) \/ st.err # "none" THEN st
    ELSE close_all(close_connection(st, ds[i], c), ds, i + 1, c)

\* CompoundDataset._open_resource
CompoundDataset_open_resource(st, o) == open_all(st, Datasets(o), 1, o)

\* CompoundDataset._close_resource
CompoundDataset_close_resource(st, o) == close_all(st, Datasets(o), 1, o)

\* PrioritizedDataset._keys = None
NoKeys == [kind |-> "none", elems |-> {}]

\* PrioritizedDataset._open_resource
PrioritizedDataset_open_resource(st, o) == open_all(st, Datasets(o), 1, o)

\* PrioritizedDataset._close_resource: the loop, then self._keys = None
PrioritizedDataset_close_resource(st, o) ==
    LET s == close_all(st, Datasets(o), 1, o)
    IN IF s.err # "none" THEN s ELSE [s EXCEPT !.prioKeys = NoKeys]

\* self._open_resource(), by the class of o; the call is logged.  A from_dict
\* store wraps a plain dict, which has no open_connection, and
\* Dataset._open_resource does nothing.
open_resource(st, o) ==
    LET s == [st EXCEPT !.hooks = Append(@, <<"open", o>>)] IN
    CASE Class(o) = "JsonDataset" -> JsonDataset_open_resource(s)
      [] Class(o) \in ArchiveKinds -> ArchiveDataset_open_resource(s)
      [] Class(o) = "WrappedDictDataset" -> s
      [] Class(o) = "FunctionDataset" -> s
      [] IsDelegating(o) -> DelegatingDataset_open_resource(s, o)
      [] Class(o) = "DataSubset" -> DataSubset_open_resource(s, o)
      [] Class(o) = "NestedDataset" -> DelegatingDataset_open_resource(s, o)
      [] Class(o) = "KeyMappedDataset" -> KeyMappedDataset_open_resource(s, o)
      [] Class(o) = "AutoSavingDataset" -> AutoSavingDataset_open_resource(s, o)
      [] IsCompound(o) -> CompoundDataset_open_resource(s, o)
      [] Class(o) = "PrioritizedDataset" -> PrioritizedDataset_open_resource(s, o)

\* self._close_resource(), by the class of o; the call is logged
close_resource(st, o) ==
    LET s == [st EXCEPT !.hooks = Append(@, <<"close", o>>)] IN
    CASE Class(o) = "JsonDataset" -> JsonDataset_close_resource(s)
      [] Class(o) \in ArchiveKinds -> ArchiveDataset_close_resource(s)
      [] Class(o) = "WrappedDictDataset" -> s
      [] Class(o) = "FunctionDataset" -> s
      [] IsDelegating(o) -> DelegatingDataset_close_resource(s, o)
      [] Class(o) \in {"DataSubset", "NestedDataset"} -> DelegatingDataset_close_resource(s, o)
      [] Class(o) = "KeyMappedDataset" -> KeyMappedDataset_close_resource(s, o)
      [] Class(o) = "AutoSavingDataset" -> AutoSavingDataset_close_resource(s, o)
      [] IsCompound(o) -> CompoundDataset_close_resource(s, o)
      [] Class(o) = "PrioritizedDataset" -> PrioritizedDataset_close_resource(s, o)

\* open_connection without the test for an empty registry
open_connection_always(st, o, c) ==
    IF st.err # "none" THEN st
    ELSE LET s == open_resource(st, o)
         IN IF s.err # "none" THEN s
            ELSE [s EXCEPT !.clients[o] = @ \cup {c}]

\* Dataset.open_connection
open_connection(st, o, c) ==
    IF st.err # "none" THEN st
    ELSE LET s == IF st.clients[o] = {} THEN open_resource(st, o) ELSE st
         IN IF s.err # "none" THEN s
            ELSE [s EXCEPT !.clients[o] = @ \cup {c}]

\* close_connection releasing the resource whatever clients remain
close_connection_always(st, o, c) ==
    IF st.err # "none" THEN st
    ELSE IF c \notin st.clients[o] THEN Raise(st, "ValueError")
    ELSE close_resource([st EXCEPT !.clients[o] = @ \ {c}], o)

\* close_connection discarding the client: an unknown client goes unnoticed
close_connection_discard(st, o, c) ==
    IF st.err # "none" THEN st
    ELSE LET s == [st EXCEPT !.clients[o] = @ \ {c}]
         IN IF s.clients[o] = {} THEN close_resource(s, o) ELSE s

\* Dataset.close_connection
close_connection(st, o, c) ==
    IF st.err # "none" THEN st
    ELSE IF c \notin st.clients[o] THEN Raise(st, "ValueError")
    ELSE LET s == [st EXCEPT !.clients[o] = @ \ {c}]
         IN IF s.clients[o] = {} THEN close_resource(s, o) ELSE s

\* Dataset.open
open(st, o) == open_connection(st, o, o)

\* Dataset.close
close(st, o) == close_connection(st, o, o)

\* ------------------------------------------------------------ sets.py
\* A key set is a finite python set, the entire_set singleton or a
\* _NegativeSet holding the finite set _neg of excluded keys.
Finite(S) == [kind |-> "finite", elems |-> S]
entire_set == [kind |-> "entire", elems |-> {}]
NegativeSet(N) == [kind |-> "neg", elems |-> N]

\* class InfiniteSet: __len__ and __iter__ raise ValueError
InfiniteSet(s) == s.kind \in {"entire", "neg"}

\* the outcome of a call: the exception raised ("none": it returned) and the value
Ok(v) == [err |-> "none", val |-> v]
Fail(e) == [err |-> e, val |-> entire_set]

\* `key in s`: _EntireSet.__contains__, _NegativeSet.__contains__, set.__contains__
SetContains(s, k) ==
    CASE s.kind = "entire" -> TRUE
      [] s.kind = "neg" -> k \notin s.elems
      [] s.kind = "finite" -> k \in s.elems

\* negative_set(neg).  `neg is _EntireSet` compares an object with the class
\* and is false of every set, so an infinite argument reaches len(neg).
negative_set(neg) ==
    IF InfiniteSet(neg) THEN Fail("ValueError")
    ELSE IF Cardinality(neg.elems) = 0 THEN Ok(entire_set)
    ELSE Ok(NegativeSet(neg.elems))

\* an intersection that returns the receiver, as union does
EntireSet_intersection_self(other) == Ok(entire_set)

\* _EntireSet.intersection: sets and infinite sets are returned as they are,
\* any other iterable as set(other)
EntireSet_intersection(other) == Ok(other)

\* _EntireSet.union
EntireSet_union(other) == Ok(entire_set)

\* _NegativeSet.intersection: set(other) iterates other; remove raises KeyError
\* for an excluded key that other does not hold
NegativeSet_intersection(self, other) ==
    IF InfiniteSet(other) THEN Fail("ValueError")
    ELSE IF ~(self.elems \subseteq other.elems) THEN Fail("KeyError")
    ELSE Ok(Finite(other.elems \ self.elems))

\* _NegativeSet.union: iterates other
NegativeSet_union(self, other) ==
    IF InfiniteSet(other) THEN Fail("ValueError")
    ELSE negative_set(Finite(self.elems \ other.elems))

\* set.intersection(iterable) of a python set: iterates its argument
PySet_intersection(self, other) ==
    IF InfiniteSet(other) THEN Fail("ValueError")
    ELSE Ok(Finite(self.elems \cap other.elems))

\* set.union(iterable) of a python set
PySet_union(self, other) ==
    IF InfiniteSet(other) THEN Fail("ValueError")
    ELSE Ok(Finite(self.elems \cup other.elems))

\* s.intersection(other), by the class of s
intersection(s, other) ==
    CASE s.kind = "entire" -> EntireSet_intersection(other)
      [] s.kind = "neg" -> NegativeSet_intersection(s, other)
      [] s.kind = "finite" -> PySet_intersection(s, other)

\* s.union(other), by the class of s
union(s, other) ==
    CASE s.kind = "entire" -> EntireSet_union(other)
      [] s.kind = "neg" -> NegativeSet_union(s, other)
      [] s.kind = "finite" -> PySet_union(s, other)

\* the loop body without the test for an infinite operand
key_intersection_step_plain(s, ks) == intersection(s, ks)

\* core.key_intersection, the body of its loop: an infinite operand is the
\* receiver of intersection, a finite one its argument
key_intersection_step(s, ks) ==
    IF InfiniteSet(ks) THEN intersection(ks, s) ELSE intersection(s, ks)

\* core.key_intersection: the fold over keys_iterable from index i, s so far
RECURSIVE key_intersection_from(_, _, _)
key_intersection_from(s, kss, i) ==
    IF i > Len(kss) THEN Ok(s)
    ELSE LET r == key_intersection_step(s, kss[i])
         IN IF r.err # "none" THEN r
            ELSE key_intersection_from(r.val, kss, i + 1)

key_intersection(kss) == key_intersection_from(entire_set, kss, 1)

\* the key sets over Keys: finite sets, entire_set and the negative sets
FiniteKeySets == {Finite(S) : S \in SUBSET Keys}
KeySets == FiniteKeySets \cup {entire_set}
               \cup {NegativeSet(N) : N \in (SUBSET Keys) \ {{}}}

\* ------------------------------------------------------ data operations
\* the user functions the views are built with
\* map_fn of V1 = L.map(lambda x: x**2)
MapFn(v) == v * v
\* key_fn of Dataset.from_function(lambda x: 3*x)
KeyFn(k) == 3 * k
\* filter_fn of V2 = L.filter_keys(...): the odd keys pass
FilterFn(k) == k % 2 = 1

\* python dict operations
DictSet(d, k, v) == [x \in DOMAIN d \cup {k} |-> IF x = k THEN v ELSE d[x]]
DictDel(d, k) == [x \in DOMAIN d \ {k} |-> d[x]]

RECURSIVE keys(_, _), getitem(_, _, _)
RECURSIVE setitem(_, _, _, _), delitem(_, _, _)
RECURSIVE compound_keys(_, _, _, _), compound_contains(_, _, _, _)
RECURSIVE compound_getitem(_, _, _, _, _)
RECURSIVE compound_setitem(_, _, _, _, _), compound_delitem(_, _, _, _)
RECURSIVE prio_any(_, _, _, _), prio_getitem(_, _, _, _)
RECURSIVE prio_union(_, _, _)

\* JsonDataset keeps _base = None while closed; None has no keys(), supports
\* neither `in` nor subscripting nor item assignment
BaseIsNone(st, o) == Class(o) = "JsonDataset" /\ ~st.resOpen

\* DelegatingDataset.keys on a leaf: self._base.keys()
Leaf_keys(st, o) ==
    IF BaseIsNone(st, o) THEN Fail("AttributeError")
    ELSE Ok(Finite(DOMAIN st.base[o]))

\* WrappedDictDataset.__contains__: key in self._base
Leaf_contains(st, o, k) ==
    IF BaseIsNone(st, o) THEN Fail("TypeError")
    ELSE Ok(k \in DOMAIN st.base[o])

\* DelegatingDataset.__getitem__ on a leaf: self._base[key]
Leaf_getitem(st, o, k) ==
    IF BaseIsNone(st, o) THEN Fail("TypeError")
    ELSE IF k \notin DOMAIN st.base[o] THEN Fail("KeyError")
    ELSE Ok(st.base[o][k])

\* WrappedDictDataset.__setitem__: self._base[key] = value
WrappedDictDataset_setitem(st, o, k, v) == [st EXCEPT !.base[o] = DictSet(@, k, v)]

\* WrappedDictDataset.__delitem__: del self._base[key]
WrappedDictDataset_delitem(st, o, k) ==
    IF k \notin DOMAIN st.base[o] THEN Raise(st, "KeyError")
    ELSE [st EXCEPT !.base[o] = DictDel(@, k)]

\* JsonDataset.__setitem__
JsonDataset_setitem(st, o, k, v) ==
    IF ~JsonDataset_is_writable(st) THEN Raise(st, "UnwritableDatasetError")
    ELSE [st EXCEPT !.base[o] = DictSet(@, k, v)]

\* JsonDataset.__delitem__
JsonDataset_delitem(st, o, k) ==
    IF ~JsonDataset_is_writable(st) THEN Raise(st, "UnwritableDatasetError")
    ELSE IF k \notin DOMAIN st.base[o] THEN Raise(st, "KeyError")
    ELSE [st EXCEPT !.base[o] = DictDel(@, k)]

\* FunctionDataset.__contains__
FunctionDataset_contains(st, o, k) == Ok(SetContains(funcKeys[o], k))

\* FunctionDataset.__getitem__
FunctionDataset_getitem(st, o, k) ==
    IF ~SetContains(funcKeys[o], k) THEN Fail("KeyError") ELSE Ok(KeyFn(k))

\* UnwritableDataset.__setitem__ (FunctionDataset)
UnwritableDataset_setitem(st, o, k, v) == Raise(st, "UnwritableDatasetError")

\* UnwritableDataset.__delitem__(self, key, value) takes one argument more
\* than `del d[key]` passes
UnwritableDataset_delitem(st, o, k) == Raise(st, "TypeError")

\* the operations of a view's _base: the base of every view is the leaf L, a
\* JsonDataset or a from_dict store
Base_keys(st, l) == Leaf_keys(st, l)

Base_contains(st, l, k) == Leaf_contains(st, l, k)

Base_getitem(st, l, k) == Leaf_getitem(st, l, k)

Base_setitem(st, l, k, v) ==
    CASE Class(l) = "JsonDataset" -> JsonDataset_setitem(st, l, k, v)
      [] Class(l) = "WrappedDictDataset" -> WrappedDictDataset_setitem(st, l, k, v)

Base_delitem(st, l, k) ==
    CASE Class(l) = "JsonDataset" -> JsonDataset_delitem(st, l, k)
      [] Class(l) = "WrappedDictDataset" -> WrappedDictDataset_delitem(st, l, k)

\* DelegatingDataset.__setitem__ of a view: self._base[key] = value
DelegatingDataset_setitem(st, o, k, v) == Base_setitem(st, Base(o), k, v)

\* DelegatingDataset.__delitem__ of a view: del self._base[key]
DelegatingDataset_delitem(st, o, k) == Base_delitem(st, Base(o), k)

\* MappedDataset.__contains__: key in self._base
MappedDataset_contains(st, o, k) == Base_contains(st, Base(o), k)

\* MappedDataset.__getitem__: self._map_fn(self._base[key])
MappedDataset_getitem(st, o, k) ==
    LET r == Base_getitem(st, Base(o), k)
    IN IF r.err # "none" THEN r ELSE Ok(MapFn(r.val))

\* KeyFilteredDataSubset.keys: a generator over the base's keys, which
\* iterates them
KeyFilteredDataSubset_keys(st, o) ==
    IF ~is_open(st, o) THEN Fail("ClosedDatasetError")
    ELSE LET r == Base_keys(st, Base(o))
         IN IF r.err # "none" THEN r
            ELSE IF InfiniteSet(r.val) THEN Fail("ValueError")
            ELSE Ok(Finite({x \in r.val.elems : FilterFn(x)}))

\* Dataset.__contains__: key in self.keys()
Dataset_contains(st, o, k) ==
    LET r == keys(st, o)
    IN IF r.err # "none" THEN r ELSE Ok(SetContains(r.val, k))

\* DataSubset.keys
DataSubset_keys(st, o) ==
    IF ~is_open(st, o) THEN Fail("ClosedDatasetError")
    ELSE Ok(Finite(SubsetKeys))

\* a subset that hands every key to its base
DataSubset_getitem_through(st, o, k) ==
    IF ~is_open(st, o) THEN Fail("ClosedDatasetError")
    ELSE Base_getitem(st, Base(o), k)

\* DataSubset.__getitem__
DataSubset_getitem(st, o, k) ==
    IF ~is_open(st, o) THEN Fail("ClosedDatasetError")
    ELSE IF k \notin SubsetKeys THEN Fail("KeyError")
    ELSE Base_getitem(st, Base(o), k)

\* DataSubset.__setitem__
DataSubset_setitem(st, o, k, v) ==
    IF ~is_writable(st, o) THEN Raise(st, "UnwritableDatasetError")
    ELSE IF k \in SubsetKeys THEN Base_setitem(st, Base(o), k, v)
    ELSE Raise(st, "KeyError")

\* DataSubset.__delitem__
DataSubset_delitem(st, o, k) ==
    IF ~is_writable(st, o) THEN Raise(st, "UnwritableDatasetError")
    ELSE IF k \in SubsetKeys THEN Base_delitem(st, Base(o), k)
    ELSE Raise(st, "KeyError")

\* the key_fn of M, which is its own inverse_fn
KeyMapFn(k) == NumKeys + 1 - k

\* KeyMappedDataset.keys, with an inverse_fn: the generator expression takes
\* the base's keys when it is built
KeyMappedDataset_keys(st, o) ==
    LET r == Base_keys(st, Base(o))
    IN IF r.err # "none" THEN r
       ELSE IF InfiniteSet(r.val) THEN Fail("ValueError")
       ELSE Ok(Finite({KeyMapFn(x) : x \in r.val.elems}))

\* KeyMappedDataset.__getitem__: a KeyError of the base is raised anew,
\* any other exception passes through
KeyMappedDataset_getitem(st, o, k) == Base_getitem(st, Base(o), KeyMapFn(k))

\* KeyMappedDataset.__contains__
KeyMappedDataset_contains(st, o, k) == Base_contains(st, Base(o), KeyMapFn(k))

\* KeyMappedDataset.__setitem__
KeyMappedDataset_setitem(st, o, k, v) == Base_setitem(st, Base(o), KeyMapFn(k), v)

\* KeyMappedDataset.__delitem__
KeyMappedDataset_delitem(st, o, k) == Base_delitem(st, Base(o), KeyMapFn(k))

\* AutoSavingDataset.keys
AutoSavingDataset_keys(st, o) == keys(st, Src(o))

\* AutoSavingDataset.__contains__
AutoSavingDataset_contains(st, o, k) == contains(st, Src(o), k)

\* AutoSavingDataset.__getitem__.  For a key of the source that the
\* destination lacks it reads the source and calls self.dst.save_item, an
\* attribute that no dataset class defines (Dataset has save_items and
\* save_dataset): the lookup raises AttributeError before anything is written.
AutoSavingDataset_getitem(st, o, k) ==
    LET c == contains(st, Src(o), k)
        d == contains(st, Dst(o), k)
        v == getitem(st, Src(o), k)
    IN IF c.err # "none" THEN c
       ELSE IF ~c.val THEN Fail("KeyError")
       ELSE IF d.err # "none" THEN d
       ELSE IF d.val THEN getitem(st, Dst(o), k)
       ELSE IF v.err # "none" THEN v
       ELSE Fail("AttributeError")

\* NestedDataset._depth
Depth == 3

\* NestedDataset._assert_valid_key: a tuple of _depth components
ValidKey(key) == Len(key) = Depth

\* group[k1][k2]... below a dict: the value at the rest of key from index i,
\* KeyError at the first component that its level lacks
RECURSIVE nested_get(_, _, _)
nested_get(group, key, i) ==
    IF i > Len(key) THEN Ok(group)
    ELSE IF key[i] \notin DOMAIN group THEN Fail("KeyError")
    ELSE nested_get(group[key[i]], key, i + 1)

\* NestedDataset.__getitem__: the key is validated, then each component is
\* looked up in the level the previous one gave
NestedDataset_getitem(st, o, key) ==
    IF ~ValidKey(key) THEN Fail("KeyError")
    ELSE LET r == Base_getitem(st, Base(o), key[1])
         IN IF r.err # "none" THEN r ELSE nested_get(r.val, key, 2)

\* a walk that uses setdefault for the last component too, and so keeps a
\* value that is there already
RECURSIVE nested_set_default(_, _, _, _)
nested_set_default(group, key, i, v) ==
    IF i = Len(key)
    THEN IF key[i] \in DOMAIN group THEN group ELSE DictSet(group, key[i], v)
    ELSE DictSet(group, key[i],
                 nested_set_default(IF key[i] \in DOMAIN group THEN group[key[i]]
                                    ELSE EmptyDict,
                                    key, i + 1, v))

\* the loop `base = base.setdefault(k, {})` and the final assignment, as
\* the dict that results: missing levels are created
RECURSIVE nested_set(_, _, _, _)
nested_set(group, key, i, v) ==
    IF i = Len(key) THEN DictSet(group, key[i], v)
    ELSE DictSet(group, key[i],
                 nested_set(IF key[i] \in DOMAIN group THEN group[key[i]] ELSE EmptyDict,
                            key, i + 1, v))

\* NestedDataset.__setitem__: writability, then the key, then the walk.
\* The first level is the base dataset: Dataset.setdefault reads it with
\* `in` and [] and creates the level with []=.
NestedDataset_setitem(st, o, key, v) ==
    IF ~is_writable(st, o) THEN Raise(st, "UnwritableDatasetError")
    ELSE IF ~ValidKey(key) THEN Raise(st, "KeyError")
    ELSE LET c == Base_contains(st, Base(o), key[1])
             r == Base_getitem(st, Base(o), key[1])
         IN IF c.err # "none" THEN Raise(st, c.err)
            ELSE IF c.val /\ r.err # "none" THEN Raise(st, r.err)
            ELSE Base_setitem(st, Base(o), key[1],
                         nested_set(IF c.val THEN r.val ELSE EmptyDict, key, 2, v))

\* NestedDataset.__delitem__: the loop `for k in key[:-1]: base = self._base[k]`
\* looks every component up in the base itself, so the level it ends on is
\* self._base[key[-2]], and key[-1] is deleted from that
NestedDataset_delitem(st, o, key) ==
    IF ~is_writable(st, o) THEN Raise(st, "UnwritableDatasetError")
    ELSE IF ~ValidKey(key) THEN Raise(st, "KeyError")
    ELSE LET rs == [i \in 1..(Len(key) - 1) |-> Base_getitem(st, Base(o), key[i])]
             lvl == rs[Len(key) - 1]
         IN IF \E i \in DOMAIN rs : rs[i].err # "none"
            THEN Raise(st, rs[CHOOSE i \in DOMAIN rs :
                                /\ rs[i].err # "none"
                                /\ \A j \in 1..(i - 1) : rs[j].err = "none"].err)
            ELSE IF key[Len(key)] \notin DOMAIN lvl.val THEN Raise(st, "KeyError")
            ELSE Base_setitem(st, Base(o), key[Len(key) - 1],
                         DictDel(lvl.val, key[Len(key)]))

\* _nested_contains below the base: no test of the key's length; a level
\* that is a stored value and not a dict does not support `in`
RECURSIVE nested_contains(_, _, _)
nested_contains(group, key, i) ==
    IF i > Depth THEN Fail("TypeError")
    ELSE IF i = Len(key) THEN Ok(key[i] \in DOMAIN group)
    ELSE IF key[i] \notin DOMAIN group THEN Ok(FALSE)
    ELSE nested_contains(group[key[i]], key, i + 1)

\* NestedDataset.__contains__
NestedDataset_contains(st, o, key) ==
    IF Len(key) = 1 THEN Base_contains(st, Base(o), key[1])
    ELSE LET c == Base_contains(st, Base(o), key[1])
             r == Base_getitem(st, Base(o), key[1])
         IN IF c.err # "none" \/ ~c.val THEN c
            ELSE IF r.err # "none" THEN r
            ELSE nested_contains(r.val, key, 2)

\* _nested_keys below the base: the paths of `depth` components from group
RECURSIVE nested_keys(_, _)
nested_keys(group, depth) ==
    IF depth = 1 THEN {<<k>> : k \in DOMAIN group}
    ELSE UNION {{<<k>> \o rest : rest \in nested_keys(group[k], depth - 1)} :
                   k \in DOMAIN group}

\* NestedDataset.keys: _nested_keys(self._base, self._depth), which reads
\* the base with items()
NestedDataset_keys(st, o) ==
    IF BaseIsNone(st, Base(o)) THEN Fail("AttributeError")
    ELSE Ok(Finite(nested_keys(st.base[Base(o)], Depth)))

\* KeyFilteredDataSubset.__getitem__
KeyFilteredDataSubset_getitem(st, o, k) ==
    IF ~is_open(st, o) THEN Fail("ClosedDatasetError")
    ELSE IF ~FilterFn(k) THEN Fail("KeyError")
    ELSE Base_getitem(st, Base(o), k)

\* CompoundDataset.keys: key_intersection(d.keys() for d in self.datasets);
\* the generator calls d.keys() as the fold reaches it
compound_keys(st, ds, i, s) ==
    IF i > Len(ds) THEN Ok(s)
    ELSE LET kr == keys(st, ds[i])
         IN IF kr.err # "none" THEN kr
            ELSE LET r == key_intersection_step(s, kr.val)
                 IN IF r.err # "none" THEN r
                    ELSE compound_keys(st, ds, i + 1, r.val)

CompoundDataset_keys(st, o) == compound_keys(st, Datasets(o), 1, entire_set)

\* CompoundDataset.__contains__: all(key in d for d in self.datasets)
compound_contains(st, ds, i, k) ==
    IF i > Len(ds) THEN Ok(TRUE)
    ELSE LET r == contains(st, ds[i], k)
         IN IF r.err # "none" \/ ~r.val THEN r
            ELSE compound_contains(st, ds, i + 1, k)

CompoundDataset_contains(st, o, k) == compound_contains(st, Datasets(o), 1, k)

\* ZippedDataset.__getitem__: tuple(d[key] for d in self._datasets)
\* (DictDataset.__getitem__: the same values, by name)
compound_getitem(st, ds, i, k, acc) ==
    IF i > Len(ds) THEN Ok(acc)
    ELSE LET r == getitem(st, ds[i], k)
         IN IF r.err # "none" THEN r
            ELSE compound_getitem(st, ds, i + 1, k, Append(acc, r.val))

CompoundDataset_getitem(st, o, k) == compound_getitem(st, Datasets(o), 1, k, <<>>)

\* ZippedDataset.__setitem__: for dataset, v in zip(self._datasets, value)
\* (DictDataset.__setitem__: the same, by name)
compound_setitem(st, ds, i, k, v) ==
    IF i > Len(ds) \/ i > Len(v) \/ st.err # "none" THEN st
    ELSE compound_setitem(setitem(st, ds[i], k, v[i]), ds, i + 1, k, v)

CompoundDataset_setitem(st, o, k, v) == compound_setitem(st, Datasets(o), 1, k, v)

\* CompoundDataset.__delitem__: for dataset in self.datasets: del dataset[key]
compound_delitem(st, ds, i, k) ==
    IF i > Len(ds) \/ st.err # "none" THEN st
    ELSE compound_delitem(delitem(st, ds[i], k), ds, i + 1, k)

CompoundDataset_delitem(st, o, k) == compound_delitem(st, Datasets(o), 1, k)

\* PrioritizedDataset.__contains__: the cached key union when keys() has
\* stored one, else any(key in d for d in self._datasets)
prio_any(st, ds, i, k) ==
    IF i > Len(ds) THEN Ok(FALSE)
    ELSE LET r == contains(st, ds[i], k)
         IN IF r.err # "none" \/ r.val THEN r
            ELSE prio_any(st, ds, i + 1, k)

PrioritizedDataset_contains(st, o, k) ==
    IF st.prioKeys # NoKeys THEN Ok(k \in st.prioKeys.elems)
    ELSE prio_any(st, Datasets(o), 1, k)

\* PrioritizedDataset.__getitem__: for d in self._datasets: if key in d:
\* return d[key]; invalid_key_error when the loop ends
prio_getitem(st, ds, i, k) ==
    IF i > Len(ds) THEN Fail("KeyError")
    ELSE LET r == contains(st, ds[i], k)
         IN IF r.err # "none" THEN Fail(r.err)
            ELSE IF r.val THEN getitem(st, ds[i], k)
            ELSE prio_getitem(st, ds, i + 1, k)

PrioritizedDataset_getitem(st, o, k) == prio_getitem(st, Datasets(o), 1, k)

\* d.keys() is a set with a union method (the frozenset or entire_set of a
\* FunctionDataset); a WrappedDictDataset returns the dict's key view, which
\* has none
KeysHaveUnion(o) == Class(o) = "FunctionDataset"

\* s.union(*others), then frozenset(...) of the outcome: every argument of a
\* frozenset union is iterated, _EntireSet.union returns self, and frozenset
\* iterates what it is given
prio_union(s, others, i) ==
    IF i > Len(others) THEN IF InfiniteSet(s) THEN Fail("ValueError") ELSE Ok(s)
    ELSE LET r == union(s, others[i])
         IN IF r.err # "none" THEN r ELSE prio_union(r.val, others, i + 1)

\* PrioritizedDataset.keys: the cached set, else
\* frozenset(ds[0].keys().union(*(d.keys() for d in ds[1:])))
PrioritizedDataset_keys(st, o) ==
    IF st.prioKeys # NoKeys THEN Ok(st.prioKeys)
    ELSE LET ds == Datasets(o)
             k0 == keys(st, ds[1])
             rest == [i \in 1..(Len(ds) - 1) |-> keys(st, ds[i + 1])]
         IN IF k0.err # "none" THEN k0
            ELSE IF ~KeysHaveUnion(ds[1]) THEN Fail("AttributeError")
            ELSE IF \E i \in DOMAIN rest : rest[i].err # "none"
            THEN rest[CHOOSE i \in DOMAIN rest :
                        /\ rest[i].err # "none"
                        /\ \A j \in 1..(i - 1) : rest[j].err = "none"]
            ELSE prio_union(k0.val, [i \in DOMAIN rest |-> rest[i].val], 1)

\* o.keys(), by the class of o
keys(st, o) ==
    CASE Class(o) \in {"JsonDataset", "WrappedDictDataset"} -> Leaf_keys(st, o)
      [] Class(o) = "FunctionDataset" -> Ok(funcKeys[o])
      [] Class(o) = "MappedDataset" -> Base_keys(st, Base(o))
      [] Class(o) = "KeyFilteredDataSubset" -> KeyFilteredDataSubset_keys(st, o)
      [] Class(o) = "DataSubset" -> DataSubset_keys(st, o)
      [] Class(o) = "KeyMappedDataset" -> KeyMappedDataset_keys(st, o)
      [] Class(o) = "AutoSavingDataset" -> AutoSavingDataset_keys(st, o)
      [] Class(o) = "NestedDataset" -> NestedDataset_keys(st, o)
      [] IsCompound(o) -> CompoundDataset_keys(st, o)
      [] Class(o) = "PrioritizedDataset" -> PrioritizedDataset_keys(st, o)

\* `k in o`, by the class of o
contains(st, o, k) ==
    CASE Class(o) \in {"JsonDataset", "WrappedDictDataset"} -> Leaf_contains(st, o, k)
      [] Class(o) = "FunctionDataset" -> FunctionDataset_contains(st, o, k)
      [] Class(o) = "MappedDataset" -> MappedDataset_contains(st, o, k)
      [] Class(o) \in {"KeyFilteredDataSubset", "DataSubset"} -> Dataset_contains(st, o, k)
      [] Class(o) = "KeyMappedDataset" -> KeyMappedDataset_contains(st, o, k)
      [] Class(o) = "AutoSavingDataset" -> AutoSavingDataset_contains(st, o, k)
      [] Class(o) = "NestedDataset" -> NestedDataset_contains(st, o, k)
      [] IsCompound(o) -> CompoundDataset_contains(st, o, k)
      [] Class(o) = "PrioritizedDataset" -> PrioritizedDataset_contains(st, o, k)

\* o[k], by the class of o
getitem(st, o, k) ==
    CASE Class(o) \in {"JsonDataset", "WrappedDictDataset"} -> Leaf_getitem(st, o, k)
      [] Class(o) = "FunctionDataset" -> FunctionDataset_getitem(st, o, k)
      [] Class(o) = "MappedDataset" -> MappedDataset_getitem(st, o, k)
      [] Class(o) = "KeyFilteredDataSubset" -> KeyFilteredDataSubset_getitem(st, o, k)
      [] Class(o) = "DataSubset" -> DataSubset_getitem(st, o, k)
      [] Class(o) = "KeyMappedDataset" -> KeyMappedDataset_getitem(st, o, k)
      [] Class(o) = "AutoSavingDataset" -> AutoSavingDataset_getitem(st, o, k)
      [] Class(o) = "NestedDataset" -> NestedDataset_getitem(st, o, k)
      [] IsCompound(o) -> CompoundDataset_getitem(st, o, k)
      [] Class(o) = "PrioritizedDataset" -> PrioritizedDataset_getitem(st, o, k)

\* o[k] = v, by the class of o
setitem(st, o, k, v) ==
    CASE Class(o) = "JsonDataset" -> JsonDataset_setitem(st, o, k, v)
      [] Class(o) = "WrappedDictDataset" -> WrappedDictDataset_setitem(st, o, k, v)
      [] Class(o) = "FunctionDataset" -> UnwritableDataset_setitem(st, o, k, v)
      [] IsDelegating(o) -> DelegatingDataset_setitem(st, o, k, v)
      [] Class(o) = "DataSubset" -> DataSubset_setitem(st, o, k, v)
      [] Class(o) = "KeyMappedDataset" -> KeyMappedDataset_setitem(st, o, k, v)
      [] Class(o) = "NestedDataset" -> NestedDataset_setitem(st, o, k, v)
      [] IsCompound(o) -> CompoundDataset_setitem(st, o, k, v)
      [] Class(o) = "PrioritizedDataset" -> UnwritableDataset_setitem(st, o, k, v)

\* del o[k], by the class of o
delitem(st, o, k) ==
    CASE Class(o) = "JsonDataset" -> JsonDataset_delitem(st, o, k)
      [] Class(o) = "WrappedDictDataset" -> WrappedDictDataset_delitem(st, o, k)
      [] Class(o) = "FunctionDataset" -> UnwritableDataset_delitem(st, o, k)
      [] IsDelegating(o) -> DelegatingDataset_delitem(st, o, k)
      [] Class(o) = "DataSubset" -> DataSubset_delitem(st, o, k)
      [] Class(o) = "KeyMappedDataset" -> KeyMappedDataset_delitem(st, o, k)
      [] Class(o) = "NestedDataset" -> NestedDataset_delitem(st, o, k)
      [] IsCompound(o) -> CompoundDataset_delitem(st, o, k)
      [] Class(o) = "PrioritizedDataset" -> UnwritableDataset_delitem(st, o, k)

\* ------------------------------------------------- the lifecycle machine
\* The datasets whose open/close the lifecycle machine drives
LifeObjs == {"L", "V1", "V2", "D"}

\* one document: every key present
SampleDict == [k \in Keys |-> 1]

\* the record of a call; ret is <<>> when the call returns nothing
Last(op, o, arg) == [op |-> op, obj |-> o, arg |-> arg, ret |-> <<>>]
Returned(op, o, k, r) == [op |-> op, obj |-> o, arg |-> "", ret |-> <<k, r>>]
IdleLast == Last("init", "L", "L")

\* the key-set operands, when a machine does not use them
IdleOut == [op |-> "none", key |-> 0, res |-> Ok(entire_set)]
IdleSets ==
    ksA = entire_set /\ ksB = entire_set /\ ksOut = IdleOut /\ checkPresent = FALSE

\* the leaves P0, P1 of the zip, when a machine does not use them
IdleKind(k) == [l \in Leaves |-> IF l = "L" THEN k ELSE "WrappedDictDataset"]
IdleFuncKeys == [l \in {"P0", "P1"} |-> entire_set]

\* The state after construction: constructors record configuration only, no
\* registry holds a client and no resource is acquired.
Init ==
    /\ prioKeys = NoKeys
    /\ \E k \in ResourceKinds \cup {"WrappedDictDataset"} :
         /\ kind = IdleKind(k)
         /\ IF k = "WrappedDictDataset"
            THEN /\ mode = "a"
                 /\ fileExists = FALSE
                 /\ base = [l \in Leaves |-> IF l = "L" THEN SampleDict ELSE EmptyDict]
            ELSE /\ mode \in Modes
                 /\ fileExists \in BOOLEAN
                 /\ base = [l \in Leaves |-> EmptyDict]
    /\ fileData = IF fileExists THEN SampleDict ELSE EmptyDict
    /\ funcKeys = IdleFuncKeys
    /\ clients = [o \in Objs |-> {}]
    /\ resOpen = FALSE
    /\ hooks = <<>>
    /\ err = "none"
    /\ last = IdleLast
    /\ IdleSets

\* the state a call leaves behind, with what it raised
Commit(st) ==
    /\ clients' = st.clients
    /\ resOpen' = st.resOpen
    /\ base' = st.base
    /\ fileExists' = st.fileExists
    /\ fileData' = st.fileData
    /\ hooks' = st.hooks
    /\ err' = st.err
    /\ prioKeys' = st.prioKeys
    /\ UNCHANGED <<kind, mode, funcKeys, ksA, ksB, ksOut, checkPresent>>

\* o.open()
Open(o) ==
    /\ Commit(open(Cur, o))
    /\ last' = Last("open", o, o)

\* o.close()
Close(o) ==
    /\ Commit(close(Cur, o))
    /\ last' = Last("close", o, o)

\* L.open_connection(c) by a caller outside the graph
OpenConnection(c) ==
    /\ Commit(open_connection(Cur, "L", c))
    /\ last' = Last("open_connection", "L", c)

\* L.close_connection(c) by a caller outside the graph
CloseConnection(c) ==
    /\ Commit(close_connection(Cur, "L", c))
    /\ last' = Last("close_connection", "L", c)

Next ==
    \/ \E o \in LifeObjs : Open(o)
    \/ \E o \in LifeObjs : Close(o)
    \/ \E c \in Ext : OpenConnection(c)
    \/ \E c \in Ext : CloseConnection(c)

Spec == Init /\ [][Next]_vars

\* ------------------------------------------------------ lifecycle claims
\* how many times the last call invoked hook h of dataset o
HookCount(h, o) == Cardinality({i \in DOMAIN hooks : hooks[i] = <<h, o>>})
HookCountNext(h, o) == Cardinality({i \in DOMAIN hooks' : hooks'[i] = <<h, o>>})

OwnsResource == kind["L"] \in ResourceKinds
ViewOpen(v) == clients[v] # {}

\* C1: with two views V1, V2 on a leaf L that owns a resource and nobody else
\* attached to L, the resource of L is open exactly while V1 or V2 is open;
\* closing V1 while V2 is open invokes no hook of L and leaves the resource
\* open, and the close of the last open view invokes L._close_resource
\* exactly once and leaves L closed.
C1_ViewsShareLeaf ==
    /\ [](OwnsResource /\ clients["L"] \subseteq {"V1", "V2"}
            => (resOpen <=> (ViewOpen("V1") \/ ViewOpen("V2"))))
    /\ [][(OwnsResource /\ last'.op = "close" /\ last'.obj \in {"V1", "V2"}
             /\ clients[last'.obj] = {last'.obj})
            => IF clients["L"] = {last'.obj}
               THEN /\ HookCountNext("close", "L") = 1
                    /\ ~resOpen' /\ clients'["L"] = {}
               ELSE /\ HookCountNext("close", "L") = 0
                    /\ resOpen' /\ clients'["L"] = clients["L"] \ {last'.obj}]_vars

\* V2.close() has just released the resource that V1 and V2 shared
C1_Witness ==
    /\ OwnsResource /\ last = Last("close", "V2", "V2")
    /\ err = "none" /\ HookCount("close", "L") = 1
    /\ ~resOpen /\ clients["L"] = {} /\ ~ViewOpen("V1") /\ fileExists

\* C2: on a resource-owning dataset the resource is open iff the registry is
\* non-empty; a call in which no hook fails invokes _open_resource exactly
\* once when the registry goes from empty to non-empty, _close_resource
\* exactly once when it goes from non-empty to empty, and no hook otherwise.
C2_OpenIffClients ==
    /\ [](OwnsResource => (resOpen <=> clients["L"] # {}))
    /\ [][(OwnsResource /\ err' # "IOError")
            => /\ HookCountNext("open", "L") =
                    (IF clients["L"] = {} /\ clients'["L"] # {} THEN 1 ELSE 0)
               /\ HookCountNext("close", "L") =
                    (IF clients["L"] # {} /\ clients'["L"] = {} THEN 1 ELSE 0)]_vars

\* the last client has just detached with close_connection
C2_Witness ==
    /\ OwnsResource /\ last.op = "close_connection" /\ err = "none"
    /\ clients["L"] = {} /\ ~resOpen /\ hooks = << <<"close", "L">> >>

\* C3: D = Dataset.dict(a=V1, b=V2) over views of one leaf: D.open() acquires
\* the resource of L once if nobody held it (and not at all otherwise), and
\* D.close() releases it, once, exactly when no client of L remains; while L
\* is also opened directly the resource survives D.close() until L.close().
C3_DictSharesLeaf ==
    [][OwnsResource /\ err' = "none" =>
        /\ (last'.op = "open" /\ last'.obj = "D" /\ clients["D"] = {})
            => /\ HookCountNext("open", "L") = (IF clients["L"] = {} THEN 1 ELSE 0)
               /\ resOpen' /\ {"V1", "V2"} \subseteq clients'["L"]
        /\ (last'.op = "close" /\ last'.obj = "D" /\ clients["D"] = {"D"})
            => /\ HookCountNext("close", "L") = (IF clients'["L"] = {} THEN 1 ELSE 0)
               /\ resOpen' <=> clients'["L"] # {}
               /\ "L" \in clients["L"] => resOpen' /\ "L" \in clients'["L"]
        /\ (last'.op = "close" /\ last'.obj = "L" /\ clients["L"] = {"L"})
            => HookCountNext("close", "L") = 1 /\ ~resOpen']_vars

\* D.close() has returned while L, opened directly too, keeps its resource
C3_Witness ==
    /\ OwnsResource /\ last = Last("close", "D", "D")
    /\ err = "none" /\ clients["D"] = {} /\ clients["L"] = {"L"}
    /\ resOpen /\ HookCount("close", "L") = 0

\* C4: close_connection(client) for a client that is not in the registry
\* raises ValueError, invokes no hook and leaves every registry and the
\* resource as they were.
C4_CloseUnknownClient ==
    [][(last'.op \in {"close", "close_connection"}
          /\ last'.arg \notin clients[last'.obj])
        => /\ err' = "ValueError"
           /\ hooks' = <<>>
           /\ UNCHANGED <<clients, resOpen, base, fileExists, fileData>>]_vars

\* an unknown client was refused while another client holds the resource
C4_Witness ==
    /\ OwnsResource /\ last.op = "close_connection" /\ err = "ValueError"
    /\ last.arg \notin clients["L"] /\ clients["L"] # {} /\ resOpen

\* C5: open_connection by a client that is already registered invokes no
\* _open_resource and leaves the registries unchanged.
C5_OpenIdempotent ==
    [][(last'.op \in {"open", "open_connection"}
          /\ last'.arg \in clients[last'.obj])
        => /\ err' = "none"
           /\ hooks' = <<>>
           /\ UNCHANGED <<clients, resOpen, base, fileExists, fileData>>]_vars

\* L.open() was repeated by its only client
C5_Witness ==
    /\ OwnsResource /\ last = Last("open", "L", "L")
    /\ err = "none" /\ hooks = <<>> /\ clients["L"] = {"L"} /\ resOpen

\* ------------------------------------------------------ the data machine
\* A leaf L (a JsonDataset or a from_dict store) and its views V1 = L.map(MapFn)
\* and V2 = L.filter_keys(FilterFn): items are set and deleted through any of
\* them while L is opened and closed.
DataObjs == {"L", "V1", "V2"}
DataLife == {"L"}

InitData ==
    /\ prioKeys = NoKeys
    /\ \E k \in {"JsonDataset", "WrappedDictDataset"} :
         /\ kind = IdleKind(k)
         /\ IF k = "WrappedDictDataset"
            THEN /\ mode = "a"
                 /\ fileExists = FALSE
                 /\ \E d \in {EmptyDict, SampleDict} :
                      base = [l \in Leaves |-> IF l = "L" THEN d ELSE EmptyDict]
            ELSE /\ mode \in Modes
                 /\ fileExists \in BOOLEAN
                 /\ base = [l \in Leaves |-> EmptyDict]
    /\ fileData = IF fileExists THEN SampleDict ELSE EmptyDict
    /\ funcKeys = IdleFuncKeys
    /\ clients = [o \in Objs |-> {}]
    /\ resOpen = FALSE
    /\ hooks = <<>>
    /\ err = "none"
    /\ last = IdleLast
    /\ IdleSets

\* o[k] = v
SetItem(o, k, v) ==
    /\ Commit(setitem(Cur, o, k, v))
    /\ last' = Last("setitem", o, "")

\* del o[k]
DelItem(o, k) ==
    /\ Commit(delitem(Cur, o, k))
    /\ last' = Last("delitem", o, "")

NextData ==
    \/ \E o \in DataLife : Open(o)
    \/ \E o \in DataLife : Close(o)
    \/ \E o \in DataObjs, k \in Keys, v \in Vals : SetItem(o, k, v)
    \/ \E o \in DataObjs, k \in Keys : DelItem(o, k)

SpecData == InitData /\ [][NextData]_vars

\* ------------------------------------------------------ claims on flags
\* C6: in every reachable state of every dataset, is_writable implies is_open
\* (leaf stores in mode 'a' or 'w' and the delegating views over them).
C6_WritableImpliesOpen ==
    \A o \in LifeObjs : is_writable(Cur, o) => is_open(Cur, o)

\* C7: base.map(f) is never writable, and setting a key through it raises
\* UnwritableDatasetError and leaves the base dataset unchanged.
C7_MapReadOnly ==
    /\ [](~is_writable(Cur, "V1"))
    /\ [][(last'.op = "setitem" /\ last'.obj = "V1")
            => (err' = "UnwritableDatasetError" /\ base' = base)]_vars

\* ------------------------------------------------------- the zip machine
\* Z = Dataset.zip(P0, P1), each operand a from_dict store or a function-backed
\* dataset over entire_set or over a finite key set.
ZipOperands ==
    {[kind |-> "WrappedDictDataset", base |-> d, keys |-> entire_set] : d \in Dicts}
    \cup {[kind |-> "FunctionDataset", base |-> EmptyDict, keys |-> ks] :
            ks \in FiniteKeySets \cup {entire_set}}

InitZip ==
    /\ prioKeys = NoKeys
    /\ \E p0 \in ZipOperands, p1 \in ZipOperands :
         /\ kind = [l \in Leaves |-> CASE l = "L" -> "WrappedDictDataset"
                                      [] l = "P0" -> p0.kind
                                      [] l = "P1" -> p1.kind]
         /\ base = [l \in Leaves |-> CASE l = "L" -> EmptyDict
                                      [] l = "P0" -> p0.base
                                      [] l = "P1" -> p1.base]
         /\ funcKeys = [l \in {"P0", "P1"} |-> IF l = "P0" THEN p0.keys ELSE p1.keys]
    /\ mode = "a"
    /\ fileExists = FALSE
    /\ fileData = EmptyDict
    /\ clients = [o \in Objs |-> {}]
    /\ resOpen = FALSE
    /\ hooks = <<>>
    /\ err = "none"
    /\ last = IdleLast
    /\ IdleSets

\* a call that returns a value and changes nothing
Query(op, o, k, r) ==
    /\ last' = Returned(op, o, k, r)
    /\ err' = r.err
    /\ hooks' = <<>>
    /\ UNCHANGED <<kind, mode, clients, resOpen, base, funcKeys, fileExists,
                   fileData, ksA, ksB, ksOut, checkPresent, prioKeys>>

\* Z[k]
ZipGetItem(k) == Query("getitem", "Z", k, getitem(Cur, "Z", k))

\* k in Z
ZipContains(k) == Query("contains", "Z", k, contains(Cur, "Z", k))

\* Z.keys()
ZipKeys == Query("keys", "Z", 0, keys(Cur, "Z"))

\* Z[k] = (v0, v1)
ZipSetItem(k, v0, v1) ==
    /\ Commit(setitem(Cur, "Z", k, <<v0, v1>>))
    /\ last' = Last("setitem", "Z", "")

\* del Z[k]
ZipDelItem(k) ==
    /\ Commit(delitem(Cur, "Z", k))
    /\ last' = Last("delitem", "Z", "")

NextZip ==
    \/ \E k \in Keys : ZipGetItem(k)
    \/ \E k \in Keys : ZipContains(k)
    \/ ZipKeys
    \/ \E k \in Keys, v0 \in Vals, v1 \in Vals : ZipSetItem(k, v0, v1)
    \/ \E k \in Keys : ZipDelItem(k)

SpecZip == InitZip /\ [][NextZip]_vars

\* -------------------------------------------------------- claims on zip
\* C8: the is_writable flag of Dataset.zip(d0, d1) is the conjunction of the
\* is_writable flags of d0 and d1.
C8_ZipWritable ==
    is_writable(Cur, "Z") <=> (is_writable(Cur, "P0") /\ is_writable(Cur, "P1"))

\* the key set of a zip operand, read off its state
OperandKeys(l) ==
    IF kind[l] = "FunctionDataset" THEN funcKeys[l] ELSE Finite(DOMAIN base[l])

\* C9: for Z = Dataset.zip(P0, P1): a key is in Z iff it is in both operands;
\* Z[k] is the pair (P0[k], P1[k]) for a key of both and raises KeyError for
\* a key absent from either; Z.keys() is the intersection of the operands'
\* key sets (entire_set when both are function-backed over every key).
C9_ZipAlignment ==
    /\ \A k \in Keys :
         LET both == SetContains(OperandKeys("P0"), k)
                        /\ SetContains(OperandKeys("P1"), k)
         IN /\ contains(Cur, "Z", k) = Ok(both)
            /\ IF both
               THEN getitem(Cur, "Z", k)
                       = Ok(<<getitem(Cur, "P0", k).val, getitem(Cur, "P1", k).val>>)
               ELSE getitem(Cur, "Z", k).err = "KeyError"
    /\ keys(Cur, "Z") =
         Ok(IF OperandKeys("P0") = entire_set /\ OperandKeys("P1") = entire_set
            THEN entire_set
            ELSE Finite({k \in Keys : SetContains(OperandKeys("P0"), k)
                                        /\ SetContains(OperandKeys("P1"), k)}))
    /\ last.op = "getitem" => last.ret[2] = getitem(Cur, "Z", last.ret[1])
    /\ last.op = "contains" => last.ret[2] = contains(Cur, "Z", last.ret[1])
    /\ last.op = "keys" => last.ret[2] = keys(Cur, "Z")

\* Z.keys() has returned the keys of a from_dict store zipped with a function
\* over every key, one of which the store lacks
C9_Witness ==
    /\ kind["P0"] = "WrappedDictDataset" /\ kind["P1"] = "FunctionDataset"
    /\ funcKeys["P1"] = entire_set /\ DOMAIN base["P0"] = {1}
    /\ last.op = "keys" /\ last.ret[2] = Ok(Finite({1}))
    /\ getitem(Cur, "Z", 1) = Ok(<<base["P0"][1], KeyFn(1)>>)
    /\ getitem(Cur, "Z", 2).err = "KeyError"

\* ---------------------------------------------------- the key-set machine
\* the operations of sets.py and core.key_intersection, applied to two key sets
InitSets ==
    /\ prioKeys = NoKeys
    /\ ksA \in KeySets
    /\ ksB \in KeySets
    /\ ksOut = IdleOut
    /\ checkPresent = FALSE
    /\ kind = IdleKind("WrappedDictDataset")
    /\ mode = "a"
    /\ fileExists = FALSE
    /\ fileData = EmptyDict
    /\ base = [l \in Leaves |-> EmptyDict]
    /\ funcKeys = IdleFuncKeys
    /\ clients = [o \in Objs |-> {}]
    /\ resOpen = FALSE
    /\ hooks = <<>>
    /\ err = "none"
    /\ last = IdleLast

Apply(op, k, r) ==
    /\ ksOut' = [op |-> op, key |-> k, res |-> r]
    /\ UNCHANGED <<kind, mode, clients, resOpen, base, funcKeys, fileExists,
                   fileData, hooks, err, last, ksA, ksB, checkPresent, prioKeys>>

\* ksA.intersection(ksB)
SetsIntersection == Apply("intersection", 0, intersection(ksA, ksB))

\* ksA.union(ksB)
SetsUnion == Apply("union", 0, union(ksA, ksB))

\* k in ksA
SetsContains(k) == Apply("contains", k, Ok(SetContains(ksA, k)))

\* negative_set(ksA)
SetsNegativeSet == Apply("negative_set", 0, negative_set(ksA))

\* key_intersection((ksA, ksB))
SetsKeyIntersection == Apply("key_intersection", 0, key_intersection(<<ksA, ksB>>))

NextSets ==
    \/ SetsIntersection
    \/ SetsUnion
    \/ \E k \in Keys : SetsContains(k)
    \/ SetsNegativeSet
    \/ SetsKeyIntersection

SpecSets == InitSets /\ [][NextSets]_vars

\* ------------------------------------------------------ claims on key sets
\* C10: for every finite key set A, entire_set.intersection(A) is A,
\* entire_set.union(A) is entire_set, every key is in entire_set, and
\* negative_set of the empty set is entire_set.
C10_EntireSetLaws ==
    /\ (ksA = entire_set /\ ksB.kind = "finite" /\ ksOut.op = "intersection")
          => ksOut.res = Ok(ksB)
    /\ (ksA = entire_set /\ ksB.kind = "finite" /\ ksOut.op = "union")
          => ksOut.res = Ok(entire_set)
    /\ (ksA = entire_set /\ ksOut.op = "contains") => ksOut.res = Ok(TRUE)
    /\ (ksA = Finite({}) /\ ksOut.op = "negative_set") => ksOut.res = Ok(entire_set)

\* entire_set was intersected with a non-empty finite set
C10_Witness ==
    /\ ksA = entire_set /\ ksB = Finite(Keys)
    /\ ksOut.op = "intersection" /\ ksOut.res = Ok(Finite(Keys))

\* C11: for finite A (non-empty) and finite B, also when A is not a subset of
\* B, negative_set(A).intersection(B) returns the difference B \ A, does not
\* raise and leaves B as it was.
C11_NegativeIntersection ==
    /\ []((ksA.kind = "neg" /\ ksB.kind = "finite" /\ ksOut.op = "intersection")
            => ksOut.res = Ok(Finite(ksB.elems \ ksA.elems)))
    /\ [][ksB' = ksB]_vars

\* the keys that tell two key sets over Keys apart: Keys and one key beyond
Probe == 1..(NumKeys + 1)

\* C12: key_intersection over key sets that are finite, entire_set or a
\* NegativeSet, in any order, returns their set-theoretic intersection
\* (entire_set for the empty sequence) and never raises the ValueError of
\* taking the length of, or iterating, an infinite set.
C12_KeyIntersection ==
    /\ key_intersection(<<>>) = Ok(entire_set)
    /\ ksOut.op = "key_intersection"
          => /\ ksOut.res.err = "none"
             /\ \A k \in Probe :
                  SetContains(ksOut.res.val, k)
                     <=> (SetContains(ksA, k) /\ SetContains(ksB, k))

\* ------------------------------------------------------ the view machine
\* A leaf L (a from_dict store or a JsonDataset) with its views, the subset S
\* and the key-mapped M.  L and S are opened and closed; L, S and M are
\* written.
ViewObjs == {"L", "S", "M"}
ViewLife == {"L", "S"}

\* the values written through the views: the least and the greatest
ViewVals == {1, NumVals}

\* DataSubset.__init__ runs _check_keys when the base is open already, so a
\* subset with check_present over a from_dict store exists only when the
\* store holds every key of the subset
InitViews ==
    /\ prioKeys = NoKeys
    /\ \E k \in {"JsonDataset", "WrappedDictDataset"} :
         /\ kind = IdleKind(k)
         /\ checkPresent \in BOOLEAN
         /\ IF k = "WrappedDictDataset"
            THEN /\ mode = "a"
                 /\ fileExists = FALSE
                 /\ \E d \in {EmptyDict, SampleDict} :
                      /\ base = [l \in Leaves |-> IF l = "L" THEN d ELSE EmptyDict]
                      /\ checkPresent => SubsetKeys \subseteq DOMAIN d
            ELSE /\ mode \in Modes
                 /\ fileExists \in BOOLEAN
                 /\ base = [l \in Leaves |-> EmptyDict]
    /\ fileData = IF fileExists THEN SampleDict ELSE EmptyDict
    /\ funcKeys = IdleFuncKeys
    /\ clients = [o \in Objs |-> {}]
    /\ resOpen = FALSE
    /\ hooks = <<>>
    /\ err = "none"
    /\ last = IdleLast
    /\ ksA = entire_set /\ ksB = entire_set /\ ksOut = IdleOut

NextViews ==
    \/ \E o \in ViewLife : Open(o)
    \/ \E o \in ViewLife : Close(o)
    \/ \E o \in ViewObjs, k \in Keys, v \in ViewVals : SetItem(o, k, v)
    \/ \E o \in ViewObjs, k \in Keys : DelItem(o, k)

SpecViews == InitViews /\ [][NextViews]_vars

\* ------------------------------------------------------ claims on views
\* o is open and writable, so that a write through it is admitted
WritableOpen(o) == is_open(Cur, o) /\ is_writable(Cur, o)

\* every key of o but k reads after the step as it read before
OthersKept(o, k) ==
    \A j \in Keys \ {k} : getitem(Cur, o, j)' = getitem(Cur, o, j)

\* C13: on a writable open dataset o (a from_dict store, a JsonDataset in
\* mode 'a', a Subset or MapKeys view over one) and a key k that o did not
\* hold: after o[k] = v, o[k] returns v and k is in o; after del o[k], k is
\* not in o; every other key keeps its value throughout.
C13_RoundTrip ==
    [][\A o \in ViewObjs, k \in Keys :
         /\ \A v \in ViewVals :
              (SetItem(o, k, v) /\ WritableOpen(o) /\ err' = "none"
                 /\ getitem(Cur, o, k).err = "KeyError")
              => /\ getitem(Cur, o, k)' = Ok(v)
                 /\ contains(Cur, o, k)' = Ok(TRUE)
                 /\ OthersKept(o, k)
         /\ (DelItem(o, k) /\ WritableOpen(o) /\ err' = "none")
              => /\ contains(Cur, o, k)' = Ok(FALSE)
                 /\ OthersKept(o, k)]_vars

\* ---------------------------------------------------------- bulk copy
\* the orders in which a dict or a set over Keys can hand out its keys
Perms == {p \in [1..NumKeys -> Keys] : \A i, j \in 1..NumKeys : p[i] = p[j] => i = j}

\* the keys of S in the order ord
KeyOrder(S, ord) == SelectSeq(ord, LAMBDA k : k \in S)

\* a write or delete the copy is about to make on dest, logged
Logged(st, op, dest) == [st EXCEPT !.hooks = Append(@, <<op, dest>>)]

\* a loop that goes on to the remaining keys after a key has failed
RECURSIVE save_dataset_loop_skip(_, _, _, _, _)
save_dataset_loop_skip(st, dest, src, ks, i) ==
    IF i > Len(ks) THEN st
    ELSE LET s0 == [st EXCEPT !.err = "none"]
             r == getitem(s0, src, ks[i])
             s1 == IF r.err # "none" THEN Raise(s0, r.err)
                   ELSE setitem(Logged(s0, "setitem", dest), dest, ks[i], r.val)
             s2 == save_dataset_loop_skip(s1, dest, src, ks, i + 1)
         IN IF st.err # "none" THEN Raise(s2, st.err)
            ELSE IF s1.err # "none" THEN Raise(s2, s1.err)
            ELSE s2

\* a loop that leaves alone every key dest holds already
RECURSIVE save_dataset_loop_keep(_, _, _, _, _)
save_dataset_loop_keep(st, dest, src, ks, i) ==
    IF i > Len(ks) \/ st.err # "none" THEN st
    ELSE LET c == contains(st, dest, ks[i])
             r == getitem(st, src, ks[i])
         IN IF c.err # "none" THEN Raise(st, c.err)
            ELSE IF c.val THEN save_dataset_loop_keep(st, dest, src, ks, i + 1)
            ELSE IF r.err # "none" THEN Raise(st, r.err)
            ELSE save_dataset_loop_keep(
                    setitem(Logged(st, "setitem", dest), dest, ks[i], r.val),
                    dest, src, ks, i + 1)

\* Dataset.save_dataset, the loop `for key in keys` from index i
RECURSIVE save_dataset_loop(_, _, _, _, _)
save_dataset_loop(st, dest, src, ks, i) ==
    IF i > Len(ks) \/ st.err # "none" THEN st
    ELSE LET c == contains(st, dest, ks[i])
         IN IF c.err # "none" THEN Raise(st, c.err)
            ELSE LET s1 == IF c.val
                           THEN delitem(Logged(st, "delitem", dest), dest, ks[i])
                           ELSE st
                     r == getitem(s1, src, ks[i])
                 IN IF s1.err # "none" THEN s1
                    ELSE IF r.err # "none" THEN Raise(s1, r.err)
                    ELSE save_dataset_loop(
                            setitem(Logged(s1, "setitem", dest), dest, ks[i], r.val),
                            dest, src, ks, i + 1)

\* a copy set that keeps the keys dest holds already
save_dataset_all(st, dest, ks) == ks

\* the copy set of save_dataset without overwrite:
\* tuple(k for k in keys if k not in self)
save_dataset_missing(st, dest, ks) == {k \in ks : ~contains(st, dest, k).val}

\* Dataset.save_dataset(dataset, overwrite) on dest; ord is the order in
\* which the source's keys are handed out.  len(keys) and the iteration of
\* keys raise ValueError for an infinite key set.
save_dataset(st, dest, src, overwrite, ord) ==
    IF ~is_open(st, dest) THEN Raise(st, "IOError")
    ELSE LET r == keys(st, src)
         IN IF r.err # "none" THEN Raise(st, r.err)
            ELSE IF InfiniteSet(r.val) THEN Raise(st, "ValueError")
            ELSE IF ~overwrite
                    /\ \E k \in r.val.elems : contains(st, dest, k).err # "none"
            THEN Raise(st, (CHOOSE e \in {contains(st, dest, k).err : k \in r.val.elems} :
                               e # "none"))
            ELSE LET ks == IF overwrite THEN r.val.elems
                           ELSE save_dataset_missing(st, dest, r.val.elems)
                 IN IF ks = {} THEN st
                    ELSE save_dataset_loop(st, dest, src, KeyOrder(ks, ord), 1)

\* ------------------------------------------------------- the copy machine
\* dest.save_dataset(P0, overwrite) into the leaf L (a from_dict store or a
\* JsonDataset in mode 'a') or into its subset S; the source P0 is a
\* from_dict store or a function-backed dataset.
CopyDests == {"L", "S"}

\* the dicts the copy machine starts from: two values are enough to tell a
\* copied entry from a kept one
CopyDicts == UNION {[K -> {1, NumVals}] : K \in SUBSET Keys}

\* the sources of the copy machine
CopySources ==
    {[kind |-> "WrappedDictDataset", base |-> d, keys |-> entire_set] : d \in CopyDicts}
    \cup {[kind |-> "FunctionDataset", base |-> EmptyDict, keys |-> ks] :
            ks \in FiniteKeySets \cup {entire_set}}

InitCopy ==
    /\ prioKeys = NoKeys
    /\ \E k \in {"JsonDataset", "WrappedDictDataset"}, p0 \in CopySources :
         /\ kind = [l \in Leaves |-> CASE l = "L" -> k
                                      [] l = "P0" -> p0.kind
                                      [] l = "P1" -> "WrappedDictDataset"]
         /\ \E d \in (IF k = "JsonDataset" THEN {EmptyDict} ELSE CopyDicts) :
              base = [l \in Leaves |-> CASE l = "L" -> d
                                        [] l = "P0" -> p0.base
                                        [] l = "P1" -> EmptyDict]
         /\ funcKeys = [l \in {"P0", "P1"} |-> IF l = "P0" THEN p0.keys ELSE entire_set]
    /\ mode = "a"
    /\ fileExists = FALSE
    /\ fileData = EmptyDict
    /\ clients = [o \in Objs |-> {}]
    /\ resOpen = FALSE
    /\ hooks = <<>>
    /\ err = "none"
    /\ last = IdleLast
    /\ IdleSets

\* dest.save_dataset(P0, overwrite=overwrite)
SaveDataset(dest, overwrite, ord) ==
    /\ Commit(save_dataset(Cur, dest, "P0", overwrite, ord))
    /\ last' = Last("save_dataset", dest, IF overwrite THEN "overwrite" ELSE "keep")

NextCopy ==
    \/ Open("L")
    \/ Close("L")
    \/ \E dest \in CopyDests, overwrite \in BOOLEAN, ord \in Perms :
          SaveDataset(dest, overwrite, ord)

SpecCopy == InitCopy /\ [][NextCopy]_vars

\* ---------------------------------------------------- claims on bulk copy
\* the step is a call dest.save_dataset(P0, overwrite), in whatever order the
\* keys are handed out: every call records itself in last
CopyStep(dest, overwrite) ==
    last' = Last("save_dataset", dest, IF overwrite THEN "overwrite" ELSE "keep")

\* the step leaves what dest.save_dataset(P0, overwrite) leaves when the keys
\* are handed out in the order ord
CopyOrder(dest, overwrite, ord) ==
    LET st == save_dataset(Cur, dest, "P0", overwrite, ord)
    IN <<base', fileData', hooks', err'>> = <<st.base, st.fileData, st.hooks, st.err>>

\* C14: dest.save_dataset(src, overwrite=False) run a second time in a row
\* leaves dest with the keys and values the first run left, and when the
\* first run returned, the second makes no delete and no write on dest.
C14_CopyIdempotent ==
    [][\A dest \in CopyDests :
         (CopyStep(dest, FALSE) /\ last = Last("save_dataset", dest, "keep"))
         => /\ base' = base
            /\ err = "none" => (hooks' = <<>> /\ err' = "none")]_vars

\* a copy without overwrite has returned without touching the JsonDataset L,
\* which an earlier copy had filled with every key of the source
C14_Witness ==
    /\ kind["L"] = "JsonDataset" /\ kind["P0"] = "WrappedDictDataset"
    /\ last = Last("save_dataset", "L", "keep") /\ err = "none" /\ hooks = <<>>
    /\ DOMAIN base["P0"] = Keys /\ base["L"] = base["P0"]

\* the keys dest.save_dataset(P0, overwrite) is about to copy
CopySet(dest, overwrite) ==
    LET r == keys(Cur, "P0")
    IN IF ~is_open(Cur, dest) \/ r.err # "none" \/ InfiniteSet(r.val) THEN {}
       ELSE IF overwrite THEN r.val.elems
       ELSE {k \in r.val.elems : contains(Cur, dest, k) = Ok(FALSE)}

\* key k of L is after the step as it was before
Untouched(k) ==
    /\ (k \in DOMAIN base'["L"]) <=> (k \in DOMAIN base["L"])
    /\ k \in DOMAIN base["L"] => base'["L"][k] = base["L"][k]

\* C15: when dest.save_dataset(src) fails while it processes the i-th key
\* of the copy set, every key before it in iteration order is committed in
\* dest with the source's value, no key after it has been touched, nothing
\* is rolled back and the failure reaches the caller.  The key in process is
\* told by the writes the copy has attempted: one for every key it reached
\* the write of.
C15_CopyNotTransactional ==
    [][\A dest \in CopyDests, overwrite \in BOOLEAN, ord \in Perms :
         (CopyStep(dest, overwrite) /\ err' # "none"
            /\ CopyOrder(dest, overwrite, ord))
         => LET ks == KeyOrder(CopySet(dest, overwrite), ord)
            IN IF ks = <<>> THEN base' = base
               ELSE \E i \in 1..Len(ks) :
                      /\ i \in {HookCountNext("setitem", dest),
                                HookCountNext("setitem", dest) + 1}
                      /\ \A j \in 1..(i - 1) :
                           /\ ks[j] \in DOMAIN base'["L"]
                           /\ Ok(base'["L"][ks[j]]) = getitem(Cur, "P0", ks[j])
                      /\ \A j \in (i + 1)..Len(ks) : Untouched(ks[j])
                      /\ \A k \in Keys \ CopySet(dest, overwrite) : Untouched(k)]_vars

\* a copy into the subset S has failed on its second key, a key outside the
\* subset, after it replaced the first
C15_Witness ==
    /\ last = Last("save_dataset", "S", "overwrite") /\ err = "KeyError"
    /\ hooks = << <<"delitem", "S">>, <<"setitem", "S">>, <<"setitem", "S">> >>
    /\ kind["P0"] = "WrappedDictDataset" /\ DOMAIN base["P0"] = Keys
    /\ base["L"][1] = base["P0"][1]

\* -------------------------------------------------- the auto-save machine
\* A = AutoSavingDataset(P0, P1): the source P0 is function-backed, the
\* destination P1 a from_dict store, empty at first; A is opened, closed and
\* read, and P1 is written directly too.
InitAuto ==
    /\ prioKeys = NoKeys
    /\ \E ks \in FiniteKeySets \cup {entire_set} :
         funcKeys = [l \in {"P0", "P1"} |-> IF l = "P0" THEN ks ELSE entire_set]
    /\ kind = [l \in Leaves |-> IF l = "P0" THEN "FunctionDataset"
                                ELSE "WrappedDictDataset"]
    /\ base = [l \in Leaves |-> EmptyDict]
    /\ mode = "a"
    /\ fileExists = FALSE
    /\ fileData = EmptyDict
    /\ clients = [o \in Objs |-> {}]
    /\ resOpen = FALSE
    /\ hooks = <<>>
    /\ err = "none"
    /\ last = IdleLast
    /\ IdleSets

\* A[k]: the call changes no state, whatever it returns or raises
AutoGetItem(k) == Query("getitem", "A", k, getitem(Cur, "A", k))

NextAuto ==
    \/ Open("A")
    \/ Close("A")
    \/ \E k \in Keys : AutoGetItem(k)
    \/ \E k \in Keys, v \in Vals : SetItem("P1", k, v)
    \/ \E k \in Keys : DelItem("P1", k)

SpecAuto == InitAuto /\ [][NextAuto]_vars

\* C16: for A = AutoSavingDataset(S, Dst) over a pure-function source and
\* a writable destination: a get of a key k of S that Dst lacks returns S's
\* value and leaves k stored in Dst with that value; a get of a key that Dst
\* holds returns Dst's value and does not write Dst.
C16_AutoSaveOnce ==
    [][\A k \in Keys :
         (AutoGetItem(k) /\ SetContains(funcKeys["P0"], k))
         => IF k \in DOMAIN base["P1"]
            THEN /\ last'.ret[2] = Ok(base["P1"][k])
                 /\ base' = base
            ELSE /\ last'.ret[2] = Ok(KeyFn(k))
                 /\ k \in DOMAIN base'["P1"]
                 /\ base'["P1"][k] = KeyFn(k)]_vars

\* --------------------------------------------------- the nested machine
\* N = NestedDataset(L, Depth) over a from_dict store L, empty at first.
\* Keys are tuples: the well-formed ones have Depth components, the first
\* two over NestAlphabet, the malformed ones have fewer or more.
NestAlphabet == {1, 2}
NestKeys == {<<a, b, 1>> : a \in NestAlphabet, b \in NestAlphabet}
BadKeys == {<<1>>, <<1, 1>>, <<1, 1, 1, 1>>}
NestVals == {1, NumVals}

InitNest ==
    /\ prioKeys = NoKeys
    /\ kind = IdleKind("WrappedDictDataset")
    /\ base = [l \in Leaves |-> EmptyDict]
    /\ funcKeys = IdleFuncKeys
    /\ mode = "a"
    /\ fileExists = FALSE
    /\ fileData = EmptyDict
    /\ clients = [o \in Objs |-> {}]
    /\ resOpen = FALSE
    /\ hooks = <<>>
    /\ err = "none"
    /\ last = IdleLast
    /\ IdleSets

\* N[key] = v
NestSetItem(key, v) ==
    /\ Commit(setitem(Cur, "N", key, v))
    /\ last' = Last("setitem", "N", "")

\* del N[key]
NestDelItem(key) ==
    /\ Commit(delitem(Cur, "N", key))
    /\ last' = Last("delitem", "N", "")

NextNest ==
    \/ \E key \in NestKeys \cup BadKeys, v \in NestVals : NestSetItem(key, v)
    \/ \E key \in NestKeys \cup BadKeys : NestDelItem(key)

SpecNest == InitNest /\ [][NextNest]_vars

\* C17: on a writable nested dataset N of depth 3, after N[key] = v for a
\* key of 3 components N[key] returns v, the intermediate levels having been
\* created; a set or a get with a key that has not exactly 3 components
\* fails with KeyError and leaves the base as it was.
C17_NestedSetGet ==
    /\ [](\A key \in BadKeys : getitem(Cur, "N", key).err = "KeyError")
    /\ [][\A key \in NestKeys \cup BadKeys, v \in NestVals :
            (NestSetItem(key, v) /\ is_writable(Cur, "N"))
            => IF Len(key) = 3
               THEN /\ err' = "none"
                    /\ getitem(Cur, "N", key)' = Ok(v)
                    /\ key[1] \in DOMAIN base'["L"]
                    /\ key[2] \in DOMAIN base'["L"][key[1]]
                    /\ base'["L"][key[1]][key[2]][key[3]] = v
               ELSE err' = "KeyError" /\ base' = base]_vars

\* N[(1, 1, 1)] = v has created both intermediate levels in an empty store
C17_Witness ==
    /\ last = Last("setitem", "N", "") /\ err = "none"
    /\ base["L"] = (1 :> (1 :> (1 :> NumVals)))
    /\ getitem(Cur, "N", <<1, 1, 1>>) = Ok(NumVals)

\* ------------------------------------------------ the subset machine
\* L and Subset(L, SubsetKeys) alone, written through either

SubObjs == {"L", "S"}

\* the value the subset machine writes
SubVals == {NumVals}

NextSubset ==
    \/ \E o \in SubObjs : Open(o)
    \/ \E o \in SubObjs : Close(o)
    \/ \E o \in SubObjs, k \in Keys, v \in SubVals : SetItem(o, k, v)
    \/ \E o \in SubObjs, k \in Keys : DelItem(o, k)

SpecSubset == InitViews /\ [][NextSubset]_vars

\* what an open subset S reads: keys() is SubsetKeys, a key of SubsetKeys
\* reads as in the base, any other key raises KeyError
SubsetReads ==
    is_open(Cur, "S")
    => /\ keys(Cur, "S") = Ok(Finite(SubsetKeys))
       /\ \A k \in SubsetKeys : getitem(Cur, "S", k) = getitem(Cur, "L", k)
       /\ \A k \in Keys \ SubsetKeys : getitem(Cur, "S", k).err = "KeyError"

\* a write of key k through S that went to the base: the step is the one
\* the same write on L makes
SetDelegated(k, v) ==
    /\ base' = setitem(Cur, "L", k, v).base
    /\ err' = setitem(Cur, "L", k, v).err

DelDelegated(k) ==
    /\ base' = delitem(Cur, "L", k).base
    /\ err' = delitem(Cur, "L", k).err

\* a write through S that was refused with error e
Refused(e) == err' = e /\ base' = base /\ fileData' = fileData

\* C18 as stated: on an open Subset(base, K), keys() is K, get and set of a
\* key of K go to the base, and get, set and delete of a key outside K
\* raise KeyError and leave the base unchanged.
C18_SubsetFrame ==
    /\ []SubsetReads
    /\ [][\A k \in Keys :
            /\ \A v \in SubVals :
                 (SetItem("S", k, v) /\ is_open(Cur, "S"))
                 => IF k \in SubsetKeys
                    THEN SetDelegated(k, v)
                    ELSE Refused("KeyError")
            /\ (DelItem("S", k) /\ is_open(Cur, "S") /\ k \notin SubsetKeys)
                 => Refused("KeyError")]_vars

\* C18, amended: the same for reads; a set or delete through an open subset
\* that is not writable raises UnwritableDatasetError for every key and
\* changes nothing; through a writable one, a key of K goes to the base and
\* a key outside K raises KeyError and changes nothing.
C18_SubsetFrameWritable ==
    /\ []SubsetReads
    /\ [][\A k \in Keys :
            /\ \A v \in SubVals :
                 (SetItem("S", k, v) /\ is_open(Cur, "S"))
                 => IF ~is_writable(Cur, "S") THEN Refused("UnwritableDatasetError")
                    ELSE IF k \in SubsetKeys THEN SetDelegated(k, v)
                    ELSE Refused("KeyError")
            /\ (DelItem("S", k) /\ is_open(Cur, "S"))
                 => IF ~is_writable(Cur, "S") THEN Refused("UnwritableDatasetError")
                    ELSE IF k \in SubsetKeys THEN DelDelegated(k)
                    ELSE Refused("KeyError")]_vars

\* a set through the writable subset of a key outside it, which the base
\* holds, has just been refused
C18_Witness ==
    /\ last = Last("setitem", "S", "") /\ err = "KeyError"
    /\ is_open(Cur, "S") /\ is_writable(Cur, "S")
    /\ (Keys \ SubsetKeys) \subseteq DOMAIN base["L"]
    /\ kind["L"] = "JsonDataset"

\* ------------------------------------------- the prioritized machine
\* Pr = PrioritizedDataset(P0, P1) over the operands of the zip machine; the
\* operands are also written directly.

\* the value written to an operand
PrioVals == {NumVals}

\* Pr[k]
PrioGetItem(k) == Query("getitem", "Pr", k, getitem(Cur, "Pr", k))

\* k in Pr
PrioContains(k) == Query("contains", "Pr", k, contains(Cur, "Pr", k))

\* Pr.keys(): the first call that returns stores the union in Pr._keys
PrioKeys ==
    LET r == keys(Cur, "Pr")
    IN /\ last' = Returned("keys", "Pr", 0, r)
       /\ err' = r.err
       /\ hooks' = <<>>
       /\ prioKeys' = IF r.err = "none" THEN r.val ELSE prioKeys
       /\ UNCHANGED <<kind, mode, clients, resOpen, base, funcKeys, fileExists,
                      fileData, ksA, ksB, ksOut, checkPresent>>

NextPrio ==
    \/ Open("Pr")
    \/ Close("Pr")
    \/ \E k \in Keys : PrioGetItem(k)
    \/ \E k \in Keys : PrioContains(k)
    \/ PrioKeys
    \/ \E o \in {"Pr", "P0", "P1"}, k \in Keys, v \in PrioVals : SetItem(o, k, v)
    \/ \E o \in {"Pr", "P0", "P1"}, k \in Keys : DelItem(o, k)

SpecPrio == InitZip /\ [][NextPrio]_vars

\* the operands of Pr that hold key k, by position
Holders(k) ==
    {i \in DOMAIN Datasets("Pr") : contains(Cur, Datasets("Pr")[i], k) = Ok(TRUE)}

\* Pr[k] is the value of the first operand that holds k, KeyError when none does
FirstMatch ==
    \A k \in Keys :
        IF Holders(k) = {} THEN getitem(Cur, "Pr", k).err = "KeyError"
        ELSE LET i == CHOOSE i \in Holders(k) : \A j \in Holders(k) : i <= j
             IN getitem(Cur, "Pr", k) = getitem(Cur, Datasets("Pr")[i], k)

\* Pr.keys() returns, and holds a key exactly when some operand's keys() does
KeysAreUnion ==
    /\ keys(Cur, "Pr").err = "none"
    /\ \A k \in Probe :
         SetContains(keys(Cur, "Pr").val, k)
         <=> \E i \in DOMAIN Datasets("Pr") :
                SetContains(keys(Cur, Datasets("Pr")[i]).val, k)

\* Pr is not writable and a set through it is refused
NeverWritable ==
    /\ ~is_writable(Cur, "Pr")
    /\ \A k \in Keys, v \in PrioVals :
         /\ setitem(Cur, "Pr", k, v).err = "UnwritableDatasetError"
         /\ setitem(Cur, "Pr", k, v).base = base

\* C19: for Pr = Prioritized(P0, P1): Pr[k] is the value of the first operand
\* that contains k, also when the other holds a different value, and raises
\* KeyError when neither contains k; Pr.keys() is the union of the operands'
\* key sets; Pr is never writable.
C19_Prioritized == FirstMatch /\ KeysAreUnion /\ NeverWritable

\* ------------------------------------------------ claims on closed datasets
\* the JsonDataset L, and the Map, KeyFilter and Subset views over it
ClosedObjs == {"L", "V1", "V2", "S"}

\* a set or delete that ended in st was refused with ClosedDatasetError and
\* changed nothing
ClosedRefusal(st) ==
    /\ st.err = "ClosedDatasetError"
    /\ st.base = base /\ st.fileData = fileData /\ st.clients = clients

\* C20: get, keys, set and delete on a dataset whose resource is closed (a
\* JsonDataset before open or after its last close, or a Subset, KeyFilter or
\* Map view over it) raise ClosedDatasetError and change no state.
C20_ClosedError ==
    \A o \in ClosedObjs :
        (kind["L"] = "JsonDataset" /\ ~is_open(Cur, o))
        => /\ keys(Cur, o).err = "ClosedDatasetError"
           /\ \A k \in Keys :
                /\ getitem(Cur, o, k).err = "ClosedDatasetError"
                /\ ClosedRefusal(delitem(Cur, o, k))
                /\ \A v \in Vals : ClosedRefusal(setitem(Cur, o, k, v))

\* ------------------------------------------------ claims on nested delete
\* C21: on a writable nested dataset N of depth 3, del N[key] for a key of 3
\* components that N holds returns, leaves key out of N, and every other key
\* of N reads afterwards as it read before.
C21_NestedDelete ==
    [][\A key \in NestKeys :
         (NestDelItem(key) /\ is_writable(Cur, "N")
            /\ contains(Cur, "N", key) = Ok(TRUE))
         => /\ err' = "none"
            /\ contains(Cur, "N", key)' = Ok(FALSE)
            /\ \A other \in NestKeys \ {key} :
                 getitem(Cur, "N", other)' = getitem(Cur, "N", other)]_vars

\* ------------------------------------------------ claims on a copy that returns
\* C22: when dest.save_dataset(P0, overwrite) returns, with the copy set being
\* P0.keys() under overwrite and else the keys of P0 that dest does not
\* contain: dest holds P0's value for every key of the copy set, every other
\* entry of dest is as before (also one whose key P0 holds with another
\* value), and with an empty copy set nothing is written at all.
C22_CopyPostcondition ==
    [][\A dest \in CopyDests, overwrite \in BOOLEAN :
         (CopyStep(dest, overwrite) /\ err' = "none")
         => LET cs == CopySet(dest, overwrite)
            IN /\ \A k \in cs :
                    /\ k \in DOMAIN base'["L"]
                    /\ Ok(base'["L"][k]) = getitem(Cur, "P0", k)
               /\ \A k \in Keys \ cs : Untouched(k)
               /\ base'["P0"] = base["P0"]
               /\ cs = {} => (base' = base /\ fileData' = fileData /\ hooks' = <<>>)]_vars

\* a copy without overwrite into L has returned after writing a key, and L
\* still holds, for a key the source holds too, a value of its own
C22_Witness ==
    /\ last = Last("save_dataset", "L", "keep") /\ err = "none" /\ hooks # <<>>
    /\ kind["P0"] = "WrappedDictDataset" /\ DOMAIN base["P0"] = Keys
    /\ \E k \in Keys : k \in DOMAIN base["L"] /\ base["L"][k] # base["P0"][k]

\* --------------------------------------------- the overwriting-copy machine
\* dest.save_dataset(src, overwrite=True) where the source is the destination
\* itself or shares its leaf: L, its map view V1 and its subset S.
OverDests == {"L", "S"}
OverSources == {"L", "V1", "S"}

\* dest.save_dataset(src, overwrite=True)
CopyOver(dest, src, ord) ==
    /\ Commit(save_dataset(Cur, dest, src, TRUE, ord))
    /\ last' = Last("save_dataset", dest, src)

NextOver ==
    \/ Open("L")
    \/ Close("L")
    \/ \E k \in Keys, v \in {1, NumVals} : SetItem("L", k, v)
    \/ \E dest \in OverDests, src \in OverSources, ord \in Perms :
          CopyOver(dest, src, ord)

SpecOver == InitCopy /\ [][NextOver]_vars

\* C23: a dest.save_dataset(src, overwrite=True) that fails removes nothing
\* from the destination: every key the destination held before the call it
\* holds after it, and a key whose source read failed keeps the value it had.
C23_CopyKeepsData ==
    [][\A dest \in OverDests, src \in OverSources :
         (last' = Last("save_dataset", dest, src) /\ err' # "none")
         => \A k \in DOMAIN base["L"] :
              /\ k \in DOMAIN base'["L"]
              /\ getitem(Cur, src, k)'.err # "none" => base'["L"][k] = base["L"][k]]_vars

\* ------------------------------------------------ claims on a failed open
\* C24: when o.open() fails, for the subset S because its deferred presence
\* check raises KeyError on first open, then after the failure the base L
\* does not hold o in its client registry and L's resource, if the attempt
\* acquired it, is not left open.
C24_OpenAllOrNothing ==
    [][\A o \in SubObjs :
         (Open(o) /\ err' # "none")
         => /\ \A b \in Leaves : o \notin clients'[b] \ clients[b]
            /\ resOpen' => resOpen]_vars

\* ------------------------------------------- the repeated-operand machine
\* ZZ = Dataset.zip(L, L) lists the leaf L twice; ZZ and L are opened and
\* closed, and callers outside the graph attach to L.
DupObjs == {"ZZ", "L"}

NextDup ==
    \/ \E o \in DupObjs : Open(o)
    \/ \E o \in DupObjs : Close(o)
    \/ \E c \in Ext : OpenConnection(c)
    \/ \E c \in Ext : CloseConnection(c)

SpecDup == Init /\ [][NextDup]_vars

\* C25: for ZZ = Dataset.zip(L, L) over a leaf L that owns a resource and has
\* no other client: ZZ.open() acquires L's resource once, and the ZZ.close()
\* that follows returns without error, releases L's resource once and leaves
\* L's client registry empty.
C25_RepeatedOperand ==
    [][/\ (Open("ZZ") /\ OwnsResource /\ clients["L"] = {} /\ err' = "none")
            => HookCountNext("open", "L") = 1
       /\ (Close("ZZ") /\ OwnsResource /\ clients["L"] = {"ZZ"}
             /\ last = Last("open", "ZZ", "ZZ") /\ err = "none")
            => /\ err' = "none"
               /\ HookCountNext("close", "L") = 1
               /\ clients'["L"] = {} /\ ~resOpen']_vars

\* ------------------------------------------------ the nested-with machine
\* One caller runs `with o:` with a second `with o:` inside it.  __enter__ is
\* o.open() and __exit__ is o.close(); the caller's position is told by its
\* last call, which records how many blocks it is in.
\* Dataset.__enter__: entering a block; an open that raises ends the program
WithEnter(o) ==
    /\ \/ last.op = "init"
       \/ last.op = "enter" /\ last.obj = o /\ last.arg = "1" /\ err = "none"
    /\ Commit(open(Cur, o))
    /\ last' = Last("enter", o, IF last.op = "init" THEN "1" ELSE "2")

\* Dataset.__exit__: leaving the innermost block
WithExit(o) ==
    /\ last.obj = o /\ err = "none"
    /\ \/ last.op = "enter" /\ last.arg = "2"
       \/ last.op = "exit" /\ last.arg = "1"
    /\ Commit(close(Cur, o))
    /\ last' = Last("exit", o, IF last.op = "enter" THEN "1" ELSE "0")

NextWith ==
    \/ \E o \in LifeObjs : WithEnter(o)
    \/ \E o \in LifeObjs : WithExit(o)

SpecWith == Init /\ [][NextWith]_vars

\* C26: when one client has opened o twice (a `with o:` block inside
\* another), the first close returns and the resource of the leaf stays open,
\* and the second close returns too and is the one that releases it.
C26_BalancedOpenClose ==
    [][\A o \in LifeObjs :
         (WithExit(o) /\ OwnsResource)
         => IF last.op = "enter"
            THEN err' = "none" /\ resOpen' /\ HookCountNext("close", "L") = 0
            ELSE err' = "none" /\ ~resOpen' /\ HookCountNext("close", "L") = 1]_vars

\* ------------------------------------------------ claims on the key cache
\* C27: while Pr is open, k in Pr is true exactly when Pr[k] returns a value,
\* for every key, also after Pr.keys() has stored the union of the keys and
\* an operand has gained or lost a key since.
C27_MembershipAgreesWithGet ==
    clients["Pr"] # {}
    => \A k \in Keys :
         contains(Cur, "Pr", k) = Ok(TRUE) <=> getitem(Cur, "Pr", k).err = "none"

\* ------------------------------------------------ claims on nested membership
\* C28: for the nested dataset N of depth 3, key in N is true only for keys
\* of exactly 3 components, it is true exactly for the keys that N.keys()
\* enumerates, and N[key] returns whenever it is true; a shorter key that is a
\* prefix of a stored path is not a member.
C28_NestedMembership ==
    \A key \in NestKeys \cup BadKeys :
        LET member == contains(Cur, "N", key) = Ok(TRUE)
            listed == keys(Cur, "N").err = "none" /\ key \in keys(Cur, "N").val.elems
        IN /\ member => (Len(key) = Depth /\ getitem(Cur, "N", key).err = "none")
           /\ member <=> listed

=============================================================================
